---- MODULE Spec2Model ----
(***************************************************************************)
(* A model of simple_ini_reader.h (seb-jones/simple-ini-reader).           *)
(*                                                                         *)
(* The text buffer is a sequence of one-character strings that ends with   *)
(* the terminator NUL; a C pointer into the buffer is a 1-based index.     *)
(* sir_load_from_str is modelled pass by pass and, inside a pass, one loop *)
(* iteration per step; every query function is one action.                 *)
(***************************************************************************)
EXTENDS Integers, Sequences, FiniteSets, TLC

VARIABLES
    pc,             \* "start", "strip", "warn", "alloc", "parse", "finish",
                    \* "ready", "crashed", "freed"
    requested,      \* the SirOptions the caller passes to the load call
    source,         \* "ok" or "unavailable": can the byte source be read
    args,           \* what the caller passes: [secs, keys, maxCalls]
    text,           \* the text as the caller supplied it (never changed)
    calls,          \* number of queries made on the document so far
    options,        \* ini->options
    data,           \* ini->data, the buffer, NUL-terminated
    str,            \* the scan position of the running pass
    section_count,  \* ini->section_count
    key_count,      \* ini->key_count
    sections,       \* ini->sections: sections[i+1].ranges is C's sections[i]
    section_names,  \* ini->section_names
    key_names,      \* ini->key_names (slots past the allocation included)
    key_values,     \* ini->key_values
    key_cap,        \* number of slots allocated for key_names/key_values
    prev_index,     \* local of the structural pass
    section_index,  \* local of the structural pass
    key_index,      \* local of the structural pass
    line_number,    \* local of the diagnostic pass
    char_number,    \* local of the diagnostic pass
    warnings,       \* ini->warnings[0 .. warnings_count-1]
    error,          \* ini->error: "" when cleared, else the message kind
    ret,            \* the last public call and what it returned
    ub,             \* kinds of undefined behaviour executed so far
    heap,           \* the blocks obtained with SIR_MALLOC: live and freed
    threads         \* the lookups that threads run on the document

vars == <<pc, requested, source, args, text, calls, options, data, str, section_count,
          key_count, sections, section_names, key_names, key_values,
          key_cap, prev_index, section_index, key_index, line_number,
          char_number, warnings, error, ret, ub, heap, threads>>

-----------------------------------------------------------------------------
(* Characters and program constants                                        *)

NUL == "NUL"

SIR__SECTION_NAME_OPEN_CHAR == "["
SIR__SECTION_NAME_CLOSE_CHAR == "]"
SIR__KEY_END_CHAR == "\n"
SIR_COMMENT_CHAR == ";"
SIR_COMMENT_CHAR_ALT == "#"
SIR_KEY_ASSIGNMENT_CHAR == "="
SIR_KEY_ASSIGNMENT_CHAR_ALT == ":"
SIR_GLOBAL_SECTION_NAME == <<"g", "l", "o", "b", "a", "l">>
SIR__BOOL_TRUE_STRING == <<"t", "r", "u", "e">>
SIR__BOOL_FALSE_STRING == <<"f", "a", "l", "s", "e">>
SIR_WARNINGS_SIZE_INCR == 5

SirOptions == {"IGNORE_EMPTY_VALUES", "OVERRIDE_DUPLICATE_KEYS",
               "DISABLE_QUOTES", "DISABLE_HASH_COMMENTS",
               "DISABLE_COLON_ASSIGNMENT", "DISABLE_COMMENT_ANYWHERE",
               "DISABLE_CASE_SENSITIVITY", "DISABLE_ERRORS",
               "DISABLE_WARNINGS"}

\* A never-written int field (malloc'ed, not initialised).
Uninit == -1

\* c <= ' ' for the characters of the model (the terminator included).
LeSpace(c) == c \in {NUL, " ", "\n", "\t"}

\* C pointers: into the buffer, to a string that is not in the buffer
\* (a literal or a caller's argument), null, or a slot that was never
\* validly written.
Buf(i) == [t |-> "buf", i |-> i, s |-> <<>>]
Lit(s) == [t |-> "lit", i |-> 0, s |-> s]
Null == [t |-> "null", i |-> 0, s |-> <<>>]
Garbage == [t |-> "garbage", i |-> 0, s |-> <<>>]

RECURSIVE StrLen(_, _)
StrLen(d, p) == IF d[p] = NUL THEN 0 ELSE 1 + StrLen(d, p + 1)

\* The C string a pointer points to, read from buffer d.
CStr(d, p) ==
    IF p.t = "buf" THEN SubSeq(d, p.i, p.i + StrLen(d, p.i) - 1) ELSE p.s

-----------------------------------------------------------------------------
(* String helpers                                                          *)

LowerLetters == <<"a", "b", "c", "d", "e", "f", "g", "h", "i", "j", "k",
                  "l", "m", "n", "o", "p", "q", "r", "s", "t", "u", "v",
                  "w", "x", "y", "z">>
UpperLetters == <<"A", "B", "C", "D", "E", "F", "G", "H", "I", "J", "K",
                  "L", "M", "N", "O", "P", "Q", "R", "S", "T", "U", "V",
                  "W", "X", "Y", "Z">>

\* sir__to_lowercase leaving every character as it is.
sir__to_lowercase_Same(c) == c

\* Despite its name the function maps 'a'..'z' to 'A'..'Z'.
sir__to_lowercase(c) ==
    IF \E i \in 1..26 : LowerLetters[i] = c
    THEN UpperLetters[CHOOSE i \in 1..26 : LowerLetters[i] = c]
    ELSE c

RECURSIVE sir__str_equal_case(_, _, _)
sir__str_equal_case(s1, s2, case_insensitive) ==
    IF s1 # <<>> /\ s2 # <<>>
    THEN LET c1 == IF case_insensitive THEN sir__to_lowercase(Head(s1))
                   ELSE Head(s1)
             c2 == IF case_insensitive THEN sir__to_lowercase(Head(s2))
                   ELSE Head(s2)
         IN  IF c1 # c2 THEN FALSE
             ELSE sir__str_equal_case(Tail(s1), Tail(s2), case_insensitive)
    ELSE s1 = <<>> /\ s2 = <<>>

sir__str_equal(opts, s1, s2) ==
    sir__str_equal_case(s1, s2, "DISABLE_CASE_SENSITIVITY" \in opts)

sir__is_comment_char(opts, c) ==
    \/ c = SIR_COMMENT_CHAR
    \/ ("DISABLE_HASH_COMMENTS" \notin opts /\ c = SIR_COMMENT_CHAR_ALT)

sir__is_assignment_char(opts, c) ==
    \/ c = SIR_KEY_ASSIGNMENT_CHAR
    \/ ("DISABLE_COLON_ASSIGNMENT" \notin opts
        /\ c = SIR_KEY_ASSIGNMENT_CHAR_ALT)

\* Number of characters skipped from position p.
RECURSIVE sir__skip_whitespace(_, _)
sir__skip_whitespace(d, p) ==
    IF d[p] # NUL /\ LeSpace(d[p]) THEN 1 + sir__skip_whitespace(d, p + 1)
    ELSE 0

RECURSIVE sir__skip_to_char(_, _, _)
sir__skip_to_char(d, p, c) ==
    IF d[p] # NUL /\ d[p] # c THEN 1 + sir__skip_to_char(d, p + 1, c)
    ELSE 0

\* Returns the new buffer, the count n (-1 when c was not found) and the
\* start of the parsed string.
sir__parse_to_char(d, p, c) ==
    LET n == sir__skip_to_char(d, p, c)
    IN  IF d[p + n] = NUL
        THEN [d |-> d, n |-> -1, parsed |-> p]
        ELSE [d |-> [d EXCEPT ![p + n] = NUL], n |-> n, parsed |-> p]

sir__parse_to_assignment_char(opts, d, p) ==
    IF "DISABLE_COLON_ASSIGNMENT" \in opts
    THEN sir__parse_to_char(d, p, SIR_KEY_ASSIGNMENT_CHAR)
    ELSE LET a == sir__skip_to_char(d, p, SIR_KEY_ASSIGNMENT_CHAR)
             b == sir__skip_to_char(d, p, SIR_KEY_ASSIGNMENT_CHAR_ALT)
         IN  IF a < b
             THEN sir__parse_to_char(d, p, SIR_KEY_ASSIGNMENT_CHAR)
             ELSE sir__parse_to_char(d, p, SIR_KEY_ASSIGNMENT_CHAR_ALT)

\* The backward loop "while (str[i] <= ' ') --i": the resulting index, 0
\* when the loop leaves the buffer at its front.
RECURSIVE TrimBack(_, _)
TrimBack(d, i) ==
    IF i < 1 THEN 0
    ELSE IF LeSpace(d[i]) THEN TrimBack(d, i - 1) ELSE i

\* sir__trim_whitespace.  When the backward loop reads before the buffer
\* (under), preStops says whether the byte just before the buffer ends the
\* loop: then the terminator is written at the first byte of the buffer;
\* otherwise the loop runs on and the terminator lands outside the buffer.
sir__trim_whitespace(d, p, preStops) ==
    LET s == p + sir__skip_whitespace(d, p)
        i == TrimBack(d, s + StrLen(d, s) - 1)
    IN  IF i >= 1
        THEN [d |-> [d EXCEPT ![i + 1] = NUL], p |-> s, under |-> FALSE]
        ELSE [d |-> IF preStops THEN [d EXCEPT ![1] = NUL] ELSE d,
              p |-> s, under |-> TRUE]

sir__warnings_enabled(opts) == "DISABLE_WARNINGS" \notin opts

sir__errors_enabled(opts) == "DISABLE_ERRORS" \notin opts

\* sir__set_error that writes the message whatever the options are.
sir__set_error_Always(opts, err, kind) == kind

\* ini->error after sir__set_error: every format used by the library has
\* literal characters, so the message is non-empty; it is modelled by its
\* kind.
sir__set_error(opts, err, kind) ==
    IF sir__errors_enabled(opts) THEN kind ELSE err

\* sir__clear_error_str leaving the message in place.
sir__clear_error_str_Kept(opts, err) == err

sir__clear_error_str(opts, err) ==
    IF sir__errors_enabled(opts) THEN "" ELSE err

sir_has_error(opts, err) == sir__errors_enabled(opts) /\ err # ""

-----------------------------------------------------------------------------
(* Bounds and inputs                                                       *)

\* Most junk section-open (or assignment) characters a pass that runs past
\* the terminator counts in the memory behind the buffer.
MaxJunk == 1

RECURSIVE Flatten(_)
Flatten(ss) == IF ss = <<>> THEN <<>> ELSE Head(ss) \o Flatten(Tail(ss))

\* Every text made of at most n fragments of the set frags.
TextsOf(frags, n) ==
    { Flatten(f) : f \in UNION { [1..k -> frags] : k \in 0..n } }

\* The last call: the function, its arguments, the kind of value returned
\* (t) with the value (s, l or n), and the error slot on entry (was).
NoRet == [op |-> "none", sec |-> Null, key |-> Null, t |-> "none",
          s |-> <<>>, l |-> <<>>, n |-> 0, was |-> ""]

\* The state before the load call, for a set of texts and of option sets.
\* A block of memory obtained with SIR_MALLOC: the member of the document
\* that points to it and, for sections[i].ranges and warnings[i], the
\* index i.
Block(member, i) == [member |-> member, i |-> i]

NoBlocks == [live |-> {}, freed |-> {}, refreed |-> {}]

\* SIR_MALLOC of the blocks bs.
Malloc(h, bs) == [h EXCEPT !.live = @ \cup bs]

\* SIR_FREE of the blocks bs: a block that is not live is freed again.
Free(h, bs) ==
    [live |-> h.live \ bs,
     freed |-> h.freed \cup (bs \cap h.live),
     refreed |-> h.refreed \cup (bs \ h.live)]

\* Most threads that look up the document at the same time.
MaxThreads == 2

\* A thread that has not called.
Idle == [pc |-> "idle", sec |-> Null, key |-> Null, idx |-> -1,
         res |-> Null, has |-> FALSE, mid |-> FALSE]

InitWith(texts, optsets, sources, secs, keys, maxCalls) ==
    /\ pc = "start"
    /\ requested \in optsets
    /\ source \in sources
    /\ args = [secs |-> secs, keys |-> keys, maxCalls |-> maxCalls]
    /\ calls = 0
    /\ text \in texts
    /\ data = text \o <<NUL>>
    /\ options = {}
    /\ str = 1
    /\ section_count = 0
    /\ key_count = 0
    /\ sections = <<>>
    /\ section_names = <<>>
    /\ key_names = <<>>
    /\ key_values = <<>>
    /\ key_cap = 0
    /\ prev_index = 0
    /\ section_index = 0
    /\ key_index = 0
    /\ line_number = 1
    /\ char_number = 1
    /\ warnings = <<>>
    /\ error = ""
    /\ ret = NoRet
    /\ ub = {}
    /\ heap = NoBlocks
    /\ threads = [t \in 1..MaxThreads |-> Idle]

-----------------------------------------------------------------------------
(* sir_load_from_file, failure path, and sir__create_ini                   *)

\* The source cannot be read: the temporary document, created with errors
\* and warnings enabled, is returned with the system's message set.
LoadFromFileFail ==
    /\ pc = "start"
    /\ source = "unavailable"
    /\ options' = {}
    /\ error' = sir__set_error({}, "uninit", "source unavailable")
    /\ ret' = [NoRet EXCEPT !.op = "load", !.t = "ini"]
    /\ pc' = "ready"
    /\ UNCHANGED <<requested, source, args, text, calls, data, str, section_count, key_count,
                   sections, section_names, key_names, key_values, key_cap,
                   prev_index, section_index, key_index, line_number,
                   char_number, warnings, ub>>
    /\ heap' = Malloc(heap, {Block("ini", 0), Block("error", 0),
                              Block("error_msg", 0), Block("warnings", 0),
                              Block("filename", 0)})
    /\ UNCHANGED threads

\* sir_load_from_str up to the first pass (sir__create_ini included) with
\* opts stored as the options of the document: the error buffer is
\* allocated but not yet written when errors are enabled.
LoadFromStrWith(opts) ==
    /\ pc = "start"
    /\ source = "ok"
    /\ options' = opts
    /\ error' = IF "DISABLE_ERRORS" \in requested THEN "" ELSE "uninit"
    /\ section_count' = 1
    /\ str' = 1
    /\ pc' = "strip"
    /\ UNCHANGED <<requested, source, args, text, calls, data, key_count, sections,
                   section_names, key_names, key_values, key_cap,
                   prev_index, section_index, key_index, line_number,
                   char_number, warnings, ret, ub>>
    /\ heap' = Malloc(heap,
                 {Block("ini", 0), Block("error", 0), Block("warnings", 0),
                  Block("filename", 0), Block("data", 0)}
                 \cup (IF "DISABLE_ERRORS" \in requested THEN {}
                       ELSE {Block("error_msg", 0)}))
    /\ UNCHANGED threads

\* The load with the error option lost on the way into the document.
LoadFromStr_ErrorsTracked ==
    LoadFromStrWith(requested \ {"DISABLE_ERRORS"})

\* The load with the warning option lost on the way into the document.
LoadFromStr_WarningsCollected ==
    LoadFromStrWith(requested \ {"DISABLE_WARNINGS"})

LoadFromStr == LoadFromStrWith(requested)

-----------------------------------------------------------------------------
(* Pass 1: remove comments and count sections and keys                     *)

\* The inner loop "while (*str && *str != '\n') *str = ' '".
RECURSIVE BlankComment(_, _)
BlankComment(d, p) ==
    IF d[p] # NUL /\ d[p] # "\n"
    THEN BlankComment([d EXCEPT ![p] = " "], p + 1)
    ELSE [d |-> d, p |-> p]

\* A marker starts a comment wherever it stands, whatever the options are.
CommentStarts_Anywhere(opts, d, p) == sir__is_comment_char(opts, d[p])

CommentStarts(opts, d, p) ==
    /\ sir__is_comment_char(opts, d[p])
    /\ \/ "DISABLE_COMMENT_ANYWHERE" \notin opts
       \/ p = 1
       \/ (p > 1 /\ d[p - 1] = "\n")

\* One iteration of the loop.  Blanking a comment that reaches the
\* terminator leaves str on the terminator, and the "++str" that follows
\* moves it past the buffer: the loop then reads the memory behind the
\* buffer, where it may count up to MaxJunk more characters of each kind.
StripStep ==
    /\ pc = "strip"
    /\ str <= Len(data)
    /\ data[str] # NUL
    /\ LET b == IF CommentStarts(options, data, str)
                THEN BlankComment(data, str)
                ELSE [d |-> data, p |-> str]
           c == b.d[b.p]
           sc == IF c = SIR__SECTION_NAME_OPEN_CHAR
                 THEN section_count + 1 ELSE section_count
           kc == IF c # SIR__SECTION_NAME_OPEN_CHAR
                    /\ sir__is_assignment_char(options, c)
                 THEN key_count + 1 ELSE key_count
       IN  /\ data' = b.d
           /\ str' = b.p + 1
           /\ IF b.p + 1 > Len(data)
              THEN /\ ub' = ub \cup {"strip reads past the terminator"}
                   /\ \E js \in 0..MaxJunk, jk \in 0..MaxJunk :
                        /\ section_count' = sc + js
                        /\ key_count' = kc + jk
              ELSE /\ ub' = ub
                   /\ section_count' = sc
                   /\ key_count' = kc
    /\ UNCHANGED <<pc, requested, source, args, text, calls, options, sections, section_names,
                   key_names, key_values, key_cap, prev_index,
                   section_index, key_index, line_number, char_number,
                   warnings, error, ret>>
    /\ UNCHANGED <<heap, threads>>

\* The loop ends; the diagnostic pass runs unless warnings are disabled.
StripDone ==
    /\ pc = "strip"
    /\ IF str > Len(data) THEN TRUE ELSE data[str] = NUL
    /\ pc' = IF "DISABLE_WARNINGS" \in options THEN "alloc" ELSE "warn"
    /\ str' = 1
    /\ line_number' = 1
    /\ char_number' = 1
    /\ UNCHANGED <<requested, source, args, text, calls, options, data, section_count,
                   key_count, sections, section_names, key_names,
                   key_values, key_cap, prev_index, section_index,
                   key_index, warnings, error, ret, ub>>
    /\ UNCHANGED <<heap, threads>>

-----------------------------------------------------------------------------
(* Pass 2: check for warnings                                              *)

sir__add_to_char_counts(c, st) ==
    IF c = "\n" THEN [st EXCEPT !.ln = @ + 1, !.cn = 1]
    ELSE [st EXCEPT !.cn = @ + 1]

\* sir__add_warning: nothing is stored when warnings are disabled.
sir__add_warning(opts, st, msg) ==
    IF sir__warnings_enabled(opts)
    THEN [st EXCEPT !.ws = Append(@, [line |-> st.ln, col |-> st.cn,
                                     msg |-> msg])]
    ELSE st

\* The warning, if any, for character c met in the given loop.
WarningFor(opts, mode, c) ==
    CASE mode = "section" /\ c = "\n" -> "Newline found in section name"
      [] mode = "section" /\ c # "\n" /\ sir__is_assignment_char(opts, c)
            -> "'=' found in section name"
      [] mode = "name" /\ c = SIR__SECTION_NAME_OPEN_CHAR
            -> "'[' found in key name"
      [] mode = "name" /\ c = SIR__SECTION_NAME_CLOSE_CHAR
            -> "']' found in key name"
      [] mode = "value" /\ c = SIR__SECTION_NAME_OPEN_CHAR
            -> "'[' found in key value"
      [] mode = "value" /\ c = SIR__SECTION_NAME_CLOSE_CHAR
            -> "']' found in key value"
      [] OTHER -> ""

WarnLoopEnds(opts, mode, c) ==
    CASE mode = "ws" -> ~(c # NUL /\ LeSpace(c))
      [] mode = "section" -> c = NUL \/ c = SIR__SECTION_NAME_CLOSE_CHAR
      [] mode = "name" -> c = NUL \/ sir__is_assignment_char(opts, c)
      [] OTHER -> c = NUL \/ c = SIR__KEY_END_CHAR

\* One of the four inner loops of the pass, from state st = [p, ln, cn, ws].
RECURSIVE WarnLoop(_, _, _, _)
WarnLoop(opts, d, mode, st) ==
    LET c == d[st.p]
        w == WarningFor(opts, mode, c)
        st1 == IF w = "" THEN st ELSE sir__add_warning(opts, st, w)
    IN  IF WarnLoopEnds(opts, mode, c) THEN st
        ELSE WarnLoop(opts, d, mode,
                      [sir__add_to_char_counts(c, st1) EXCEPT !.p = @ + 1])

\* "sir__add_to_char_counts(*str, ...); ++str;" after an inner loop.
WarnNext(d, st) == [sir__add_to_char_counts(d[st.p], st) EXCEPT !.p = @ + 1]

\* One iteration of the outer loop.  An inner loop that stops on the
\* terminator is followed by "++str", which moves past the buffer (over):
\* what is scanned from there on is the memory behind the buffer.
WarnIteration(opts, d, st0) ==
    LET a == WarnLoop(opts, d, "ws", st0)
    IN  IF d[a.p] = SIR__SECTION_NAME_OPEN_CHAR
        THEN LET b == WarnLoop(opts, d, "section", a)
             IN  [st |-> WarnNext(d, b), over |-> d[b.p] = NUL]
        ELSE LET b == WarnLoop(opts, d, "name", a)
             IN  IF d[b.p] = NUL
                 THEN [st |-> WarnNext(d, b), over |-> TRUE]
                 ELSE LET e == WarnLoop(opts, d, "value", WarnNext(d, b))
                      IN  [st |-> WarnNext(d, e), over |-> d[e.p] = NUL]

JunkWarning == [line |-> 0, col |-> 0, msg |-> "junk"]

\* One iteration of the outer loop.  After running past the terminator the
\* pass scans foreign memory until it meets a zero byte, which may add
\* warnings about characters that are not in the text.
WarnStep ==
    /\ pc = "warn"
    /\ str <= Len(data)
    /\ data[str] # NUL
    /\ LET r == WarnIteration(options, data,
                    [p |-> str, ln |-> line_number, cn |-> char_number,
                     ws |-> warnings])
       IN  /\ str' = r.st.p
           /\ line_number' = r.st.ln
           /\ char_number' = r.st.cn
           /\ IF r.over
              THEN /\ ub' = ub \cup {"warn reads past the terminator"}
                   /\ \E junk \in BOOLEAN :
                        warnings' = IF junk /\ sir__warnings_enabled(options)
                                    THEN Append(r.st.ws, JunkWarning)
                                    ELSE r.st.ws
              ELSE /\ ub' = ub
                   /\ warnings' = r.st.ws
    /\ UNCHANGED <<pc, requested, source, args, text, calls, options, data, section_count,
                   key_count, sections, section_names, key_names,
                   key_values, key_cap, prev_index, section_index,
                   key_index, error, ret>>
    /\ heap' = Malloc(heap, { Block("warnings[i]", i - 1) :
                                i \in 1..Len(warnings') })
    /\ UNCHANGED threads

WarnDone ==
    /\ pc = "warn"
    /\ IF str > Len(data) THEN TRUE ELSE data[str] = NUL
    /\ pc' = "alloc"
    /\ UNCHANGED <<requested, source, args, text, calls, options, data, str, section_count,
                   key_count, sections, section_names, key_names,
                   key_values, key_cap, prev_index, section_index,
                   key_index, line_number, char_number, warnings, error,
                   ret, ub>>
    /\ UNCHANGED <<heap, threads>>

-----------------------------------------------------------------------------
(* Pass 3: the structural parser                                           *)

NewRange == [start |-> Uninit, end |-> Uninit]

\* Allocation and zero-initialisation of the arrays, one range per
\* pre-sized section, and the global section.
Alloc ==
    /\ pc = "alloc"
    /\ sections' = [[i \in 1..section_count |-> [ranges |-> <<NewRange>>]]
                      EXCEPT ![1].ranges[1].start = 0]
    /\ section_names' = [[i \in 1..section_count |-> Null]
                           EXCEPT ![1] = Lit(SIR_GLOBAL_SECTION_NAME)]
    /\ key_names' = [i \in 1..key_count |-> Null]
    /\ key_values' = [i \in 1..key_count |-> Null]
    /\ key_cap' = key_count
    /\ prev_index' = 0
    /\ section_index' = 0
    /\ key_index' = 0
    /\ str' = 1
    /\ pc' = "parse"
    /\ UNCHANGED <<requested, source, args, text, calls, options, data, section_count,
                   key_count, line_number, char_number, warnings, error,
                   ret, ub>>
    /\ heap' = Malloc(heap,
                 {Block("sections", 0), Block("section_names", 0),
                  Block("key_names", 0), Block("key_values", 0)}
                 \cup { Block("sections[i].ranges", i) :
                          i \in 0..(section_count - 1) })
    /\ UNCHANGED threads

\* sections[i].ranges[last].end = k, for C index i.
CloseRange(secs, i, k) ==
    [secs EXCEPT ![i + 1].ranges[Len(secs[i + 1].ranges)].end = k]

\* A check for duplicates that looks at the open section only.
DuplicateSection_OpenOnly(opts, d, names, sidx, name) ==
    IF /\ names[prev_index + 1].t # "null"
       /\ sir__str_equal(opts, CStr(d, names[prev_index + 1]), name)
    THEN prev_index
    ELSE -1

\* "Check for Duplicates": the first i <= section_index whose name equals
\* name, or -1.
DuplicateSection(opts, d, names, sidx, name) ==
    LET m == { i \in 0..sidx :
                 names[i + 1].t # "null"
                 /\ sir__str_equal(opts, CStr(d, names[i + 1]), name) }
    IN  IF m = {} THEN -1 ELSE CHOOSE i \in m : \A j \in m : i <= j

ParseSection ==
    /\ pc = "parse"
    /\ data[str] # NUL
    /\ \E p \in {str + sir__skip_whitespace(data, str)} :
       /\ data[p] = SIR__SECTION_NAME_OPEN_CHAR
       /\ \E closed \in {CloseRange(sections, prev_index, key_index)} :
          \E r \in {sir__parse_to_char(data, p + 1,
                                       SIR__SECTION_NAME_CLOSE_CHAR)} :
          \E t \in {sir__trim_whitespace(r.d, r.parsed, TRUE)} :
          \E name \in {Buf(t.p)} :
          \E duplicate \in {DuplicateSection(options, t.d, section_names,
                                             section_index,
                                             CStr(t.d, name))} :
             /\ data' = t.d
             /\ ub' = IF t.under
                      THEN ub \cup {"trim reads before the buffer"}
                      ELSE ub
             /\ IF duplicate # -1
                THEN /\ sections' =
                          IF duplicate # prev_index
                          THEN [closed EXCEPT ![duplicate + 1].ranges =
                                  Append(@, [NewRange EXCEPT
                                               !.start = key_index])]
                          ELSE closed
                     /\ prev_index' = duplicate
                     /\ UNCHANGED <<section_index, section_names>>
                ELSE /\ section_index' = section_index + 1
                     /\ prev_index' = section_index + 1
                     /\ sections' =
                          [closed EXCEPT
                             ![section_index + 2].ranges[1].start =
                                 key_index]
                     /\ section_names' =
                          [section_names EXCEPT
                             ![section_index + 2] = name]
             /\ IF r.n = -1
                THEN pc' = "finish" /\ str' = p + 1
                ELSE pc' = pc /\ str' = p + 1 + r.n + 1
    /\ UNCHANGED <<requested, source, args, text, calls, options, section_count, key_count,
                   key_names, key_values, key_cap, key_index, line_number,
                   char_number, warnings, error, ret>>
    /\ UNCHANGED <<heap, threads>>

\* "Check for Duplicate Name": the ranges of sections[section_index] are
\* scanned, the last one up to key_index; a match in a later range replaces
\* one found in an earlier range.  -1 means no duplicate.
RECURSIVE DuplicateKey(_, _, _, _, _, _, _, _)
DuplicateKey(opts, d, ranges, names, kidx, name, i, duplicate) ==
    IF i > Len(ranges) THEN duplicate
    ELSE LET end == IF i < Len(ranges) THEN ranges[i].end ELSE kidx
             start == ranges[i].start
             m == { j \in start..(end - 1) :
                      names[j + 1].t \in {"buf", "lit"}
                      /\ sir__str_equal(opts, CStr(d, names[j + 1]), name) }
             found == IF m = {} THEN duplicate
                      ELSE CHOOSE j \in m : \A k \in m : j <= k
         IN  DuplicateKey(opts, d, ranges, names, kidx, name, i + 1, found)

\* Is there a double-quote before the next newline?
RECURSIVE HasQuote(_, _)
HasQuote(d, p) ==
    IF d[p] = NUL \/ d[p] = SIR__KEY_END_CHAR THEN FALSE
    ELSE IF d[p] = "\"" THEN TRUE ELSE HasQuote(d, p + 1)

\* A value parse that takes the value and leaves the scan position where
\* the iteration found it.
ParseValue_Rewinds(opts, d, v0, preStops) ==
    [d |-> d, value |-> Buf(v0), str |-> str, under |-> FALSE]

\* "Parse Value" for a key whose assignment character was at v0 - 1:
\* the new buffer, the value and the new scan position.
ParseValue(opts, d, v0, preStops) ==
    IF "DISABLE_QUOTES" \notin opts /\ HasQuote(d, v0)
    THEN LET q == v0 + sir__skip_to_char(d, v0, "\"") + 1
             r == sir__parse_to_char(d, q, "\"")
         IN  [d |-> r.d, value |-> Buf(r.parsed), str |-> q + r.n + 1,
              under |-> FALSE]
    ELSE LET r == sir__parse_to_char(d, v0, SIR__KEY_END_CHAR)
             t == sir__trim_whitespace(r.d, r.parsed, preStops)
         IN  [d |-> t.d, value |-> Buf(t.p), str |-> v0 + r.n + 1,
              under |-> t.under]

\* array[i] = v for C index i; a write past the allocation lands in the
\* memory behind the array.
StoreAt(array, i, v) ==
    IF i + 1 <= Len(array) THEN [array EXCEPT ![i + 1] = v]
    ELSE Append(array, v)

\* One iteration of the main loop that parses a key line.  A store past the
\* end of the key arrays is a heap overflow: the slot either keeps what was
\* stored or is clobbered before it is read again.
ParseKey ==
    /\ pc = "parse"
    /\ data[str] # NUL
    /\ \E p \in {str + sir__skip_whitespace(data, str)} :
       /\ data[p] # SIR__SECTION_NAME_OPEN_CHAR
       /\ data[p] # NUL
       /\ \E rn \in {sir__parse_to_assignment_char(options, data, p)} :
          \E probe \in {sir__trim_whitespace(rn.d, rn.parsed, TRUE)} :
          \E preStops \in IF probe.under THEN BOOLEAN ELSE {TRUE},
             keeps \in IF key_index >= key_cap THEN BOOLEAN ELSE {TRUE} :
          \E tn \in {sir__trim_whitespace(rn.d, rn.parsed, preStops)} :
          \E key_name \in {Buf(tn.p)} :
          \E duplicate \in {DuplicateKey(options, tn.d,
                                sections[section_index + 1].ranges,
                                key_names, key_index,
                                CStr(tn.d, key_name), 1, -1)} :
          \E pv \in {IF rn.n # -1
                     THEN ParseValue(options, tn.d, p + rn.n + 1, preStops)
                     ELSE [d |-> tn.d, value |-> Lit(<<>>), str |-> p,
                           under |-> FALSE]} :
          \E applied \in {~(CStr(pv.d, pv.value) = <<>>
                            /\ "IGNORE_EMPTY_VALUES" \in options)} :
             /\ data' = pv.d
             /\ str' = pv.str
             /\ IF applied /\ duplicate # -1
                   /\ "OVERRIDE_DUPLICATE_KEYS" \in options
                THEN key_values' =
                         [key_values EXCEPT ![duplicate + 1] = pv.value]
                ELSE IF applied /\ duplicate = -1
                THEN key_values' =
                         StoreAt(key_values, key_index,
                                 IF keeps THEN pv.value ELSE Garbage)
                ELSE key_values' = key_values
             /\ IF applied /\ duplicate = -1
                THEN /\ key_names' =
                          StoreAt(key_names, key_index,
                                  IF keeps THEN key_name ELSE Garbage)
                     /\ key_index' = key_index + 1
                ELSE UNCHANGED <<key_names, key_index>>
             /\ ub' = ub
                  \cup (IF tn.under \/ pv.under
                        THEN {"trim reads before the buffer"} ELSE {})
                  \cup (IF applied /\ duplicate = -1
                           /\ key_index >= key_cap
                        THEN {"key stored past the arrays"} ELSE {})
             /\ pc' = IF rn.n = -1 THEN "finish" ELSE pc
    /\ UNCHANGED <<requested, source, args, text, calls, options, section_count, key_count,
                   sections, section_names, key_cap, prev_index,
                   section_index, line_number, char_number, warnings, error,
                   ret>>
    /\ UNCHANGED <<heap, threads>>

\* An iteration that finds only whitespace up to the terminator.
ParseBlank ==
    /\ pc = "parse"
    /\ data[str] # NUL
    /\ LET p == str + sir__skip_whitespace(data, str)
       IN  /\ data[p] = NUL
           /\ str' = p
    /\ UNCHANGED <<pc, requested, source, args, text, calls, options, data, section_count,
                   key_count, sections, section_names, key_names,
                   key_values, key_cap, prev_index, section_index,
                   key_index, line_number, char_number, warnings, error,
                   ret, ub>>
    /\ UNCHANGED <<heap, threads>>

\* After the loop: close the last range, shrink the arrays, clear the
\* error and return the document.
ParseDone ==
    /\ \/ pc = "finish"
       \/ (pc = "parse" /\ data[str] = NUL)
    /\ LET closed == CloseRange(sections, prev_index, key_index)
       IN  IF section_index + 1 < section_count
           THEN /\ section_count' = section_index + 1
                /\ sections' = SubSeq(closed, 1, section_index + 1)
                /\ section_names' =
                       SubSeq(section_names, 1, section_index + 1)
           ELSE /\ section_count' = section_count
                /\ sections' = closed
                /\ section_names' = section_names
    /\ IF key_index < key_count
       THEN /\ key_count' = key_index
            /\ key_names' = SubSeq(key_names, 1, key_index)
            /\ key_values' = SubSeq(key_values, 1, key_index)
            /\ key_cap' = key_index
       ELSE UNCHANGED <<key_count, key_names, key_values, key_cap>>
    /\ error' = sir__clear_error_str(options, error)
    /\ ret' = [NoRet EXCEPT !.op = "load", !.t = "ini"]
    /\ pc' = "ready"
    /\ UNCHANGED <<requested, source, args, text, calls, options, data, str, prev_index,
                   section_index, key_index, line_number, char_number,
                   warnings, ub>>
    /\ UNCHANGED <<heap, threads>>

-----------------------------------------------------------------------------
(* Lookup                                                                  *)

\* What a returned pointer shows the caller.
Returned(op, sec, key, ptr) ==
    [NoRet EXCEPT !.op = op, !.sec = sec, !.key = key,
                  !.t = IF ptr.t \in {"buf", "lit"} THEN "str" ELSE ptr.t,
                  !.s = CStr(data, ptr)]

\* sir__get_section: the C index of the section (-1 for a null result) and
\* the error slot afterwards.
sir__get_section(opts, err, sec) ==
    IF sec = Null
    THEN [idx |-> -1, err |-> sir__set_error(opts, err, "missing parameter")]
    ELSE LET m == { i \in 0..(section_count - 1) :
                      section_names[i + 1].t \in {"buf", "lit"}
                      /\ sir__str_equal(opts,
                             CStr(data, section_names[i + 1]), sec.s) }
         IN  IF m # {}
             THEN [idx |-> CHOOSE i \in m : \A j \in m : i <= j,
                   err |-> sir__clear_error_str(opts, err)]
             ELSE [idx |-> -1,
                   err |-> sir__set_error(opts, err, "section not found")]

\* The key indices of a section in Range-then-index order.
RECURSIVE RangeIndices(_, _)
RangeIndices(ranges, i) ==
    IF i > Len(ranges) THEN <<>>
    ELSE [j \in 1..(IF ranges[i].end > ranges[i].start
                    THEN ranges[i].end - ranges[i].start ELSE 0)
             |-> ranges[i].start + j - 1]
         \o RangeIndices(ranges, i + 1)

KeyMatches(opts, j, key) ==
    /\ key_names[j + 1].t \in {"buf", "lit"}
    /\ sir__str_equal(opts, CStr(data, key_names[j + 1]), key.s)

\* The first index of the sequence idxs whose key has the name, or -1.
RECURSIVE FirstMatch(_, _, _)
FirstMatch(opts, idxs, key) ==
    IF idxs = <<>> THEN -1
    ELSE IF KeyMatches(opts, Head(idxs), key) THEN Head(idxs)
    ELSE FirstMatch(opts, Tail(idxs), key)

\* GlobalScan with the override option ignored: the first match returns.
RECURSIVE GlobalScan_FirstMatchOnly(_, _, _, _)
GlobalScan_FirstMatchOnly(opts, i, key, key_value) ==
    IF i >= key_count THEN key_value
    ELSE IF KeyMatches(opts, i, key) THEN key_values[i + 1]
    ELSE GlobalScan_FirstMatchOnly(opts, i + 1, key, key_value)

\* The scan of the whole flat array when no section is given: the value
\* pointer (null when nothing matched).
RECURSIVE GlobalScan(_, _, _, _)
GlobalScan(opts, i, key, key_value) ==
    IF i >= key_count THEN key_value
    ELSE IF KeyMatches(opts, i, key)
    THEN IF "OVERRIDE_DUPLICATE_KEYS" \in opts
         THEN GlobalScan(opts, i + 1, key, key_values[i + 1])
         ELSE key_values[i + 1]
    ELSE GlobalScan(opts, i + 1, key, key_value)

\* sir_section_str: the returned pointer and the error slot afterwards.
sir_section_str(opts, err, sec, key) ==
    IF key = Null
    THEN [res |-> Null, err |-> sir__set_error(opts, err, "missing parameter")]
    ELSE LET g == IF sec # Null THEN sir__get_section(opts, err, sec)
                  ELSE [idx |-> -1, err |-> err]
         IN  IF sec # Null /\ sir_has_error(opts, g.err)
             THEN [res |-> Null, err |-> g.err]
             ELSE IF g.idx # -1
             THEN LET j == FirstMatch(opts,
                               RangeIndices(sections[g.idx + 1].ranges, 1),
                               key)
                  IN  IF j # -1
                      THEN [res |-> key_values[j + 1],
                            err |-> sir__clear_error_str(opts, g.err)]
                      ELSE [res |-> Null,
                            err |-> sir__set_error(opts, g.err,
                                        "key not found in section")]
             ELSE LET v == GlobalScan(opts, 0, key, Null)
                  IN  IF v # Null
                      THEN [res |-> v,
                            err |-> sir__clear_error_str(opts, g.err)]
                      ELSE [res |-> Null,
                            err |-> sir__set_error(opts, g.err,
                                                   "key not found")]

\* A section-scoped lookup reads the key slots of the section's ranges;
\* slots past the allocation are outside the arrays.
ReadsPastKeys(opts, err, sec) ==
    /\ sec # Null
    /\ LET g == sir__get_section(opts, err, sec)
       IN  /\ g.idx # -1
           /\ \E i \in 1..Len(sections[g.idx + 1].ranges) :
                  sections[g.idx + 1].ranges[i].end > key_cap

-----------------------------------------------------------------------------
(* Conversions                                                             *)

DigitChars == <<"0", "1", "2", "3", "4", "5", "6", "7", "8", "9",
                "a", "b", "c", "d", "e", "f">>
DigitCharsUpper == <<"0", "1", "2", "3", "4", "5", "6", "7", "8", "9",
                     "A", "B", "C", "D", "E", "F">>

\* The value of c as a digit of the base, or -1.
DigitVal(c, base) ==
    LET m == { i \in 1..base : DigitChars[i] = c \/ DigitCharsUpper[i] = c }
    IN  IF m = {} THEN -1 ELSE (CHOOSE i \in m : TRUE) - 1

IsSpace(c) == c \in {" ", "\t", "\n"}

RECURSIVE SkipSpaces(_)
SkipSpaces(s) ==
    IF s # <<>> /\ IsSpace(Head(s)) THEN SkipSpaces(Tail(s)) ELSE s

\* The longest prefix of s made of digits of the base, as digit values.
RECURSIVE DigitRun(_, _)
DigitRun(s, base) ==
    IF s # <<>> /\ DigitVal(Head(s), base) # -1
    THEN <<DigitVal(Head(s), base)>> \o DigitRun(Tail(s), base)
    ELSE <<>>

RECURSIVE StripZeros(_)
StripZeros(ds) ==
    IF ds # <<>> /\ Head(ds) = 0 THEN StripZeros(Tail(ds)) ELSE ds

\* a > b for two digit strings without leading zeros.
RECURSIVE DigitsGreater(_, _)
DigitsGreater(a, b) ==
    IF Len(a) # Len(b) THEN Len(a) > Len(b)
    ELSE IF a = <<>> THEN FALSE
    ELSE IF Head(a) # Head(b) THEN Head(a) > Head(b)
    ELSE DigitsGreater(Tail(a), Tail(b))

\* The digits of LONG_MAX, of -LONG_MIN and of ULONG_MAX (64-bit long),
\* in base 8, 10 and 16.
LongMaxDigits(base) ==
    CASE base = 10 -> <<9,2,2,3,3,7,2,0,3,6,8,5,4,7,7,5,8,0,7>>
      [] base = 16 -> <<7>> \o [i \in 1..15 |-> 15]
      [] OTHER -> [i \in 1..21 |-> 7]

LongMinDigits(base) ==
    CASE base = 10 -> <<9,2,2,3,3,7,2,0,3,6,8,5,4,7,7,5,8,0,8>>
      [] base = 16 -> <<8>> \o [i \in 1..15 |-> 0]
      [] OTHER -> <<1>> \o [i \in 1..21 |-> 0]

ULongMaxDigits(base) ==
    CASE base = 10 -> <<1,8,4,4,6,7,4,4,0,7,3,7,0,9,5,5,1,6,1,5>>
      [] base = 16 -> [i \in 1..16 |-> 15]
      [] OTHER -> <<1>> \o [i \in 1..21 |-> 7]

\* The number syntax of strtol/strtoul with base 0: the sign, the base and
\* the digits (leading zeros removed); conv is false when no digit could
\* be read (endptr == str).
ScanNumber(s) ==
    LET a == SkipSpaces(s)
        neg == a # <<>> /\ Head(a) = "-"
        b == IF a # <<>> /\ Head(a) \in {"-", "+"} THEN Tail(a) ELSE a
        hex == /\ Len(b) >= 3
               /\ b[1] = "0"
               /\ b[2] \in {"x", "X"}
               /\ DigitVal(b[3], 16) # -1
        base == IF hex THEN 16
                ELSE IF b # <<>> /\ Head(b) = "0" THEN 8 ELSE 10
        run == DigitRun(IF hex THEN Tail(Tail(b)) ELSE b, base)
    IN  [conv |-> run # <<>>, neg |-> neg, base |-> base,
         digits |-> StripZeros(run)]

\* strtol(str, &endptr, 0): status "ok", "max" (ERANGE, LONG_MAX), "min"
\* (ERANGE, LONG_MIN) or "noconv" (endptr == str).
strtol(s) ==
    LET n == ScanNumber(s)
    IN  IF ~n.conv THEN [status |-> "noconv", num |-> n]
        ELSE IF ~n.neg /\ DigitsGreater(n.digits, LongMaxDigits(n.base))
        THEN [status |-> "max", num |-> n]
        ELSE IF n.neg /\ DigitsGreater(n.digits, LongMinDigits(n.base))
        THEN [status |-> "min", num |-> n]
        ELSE [status |-> "ok", num |-> n]

\* strtoul(str, &endptr, 0): status "ok", "range" (ERANGE) or "noconv".
strtoul(s) ==
    LET n == ScanNumber(s)
    IN  IF ~n.conv THEN [status |-> "noconv", num |-> n]
        ELSE IF DigitsGreater(n.digits, ULongMaxDigits(n.base))
        THEN [status |-> "range", num |-> n]
        ELSE [status |-> "ok", num |-> n]

\* An integer result: zero is 0, any other value keeps sign, base and
\* digits of the text it was read from.
IntRet(op, sec, key, num) ==
    [NoRet EXCEPT !.op = op, !.sec = sec, !.key = key, !.t = "int",
                  !.n = IF num.digits = <<>> THEN 0
                        ELSE IF num.neg THEN -1 ELSE 1,
                  !.l = IF num.digits = <<>> THEN <<>>
                        ELSE <<num.base>> \o num.digits]

Zero == [conv |-> TRUE, neg |-> FALSE, base |-> 10, digits |-> <<>>]

\* The leading characters <= ' ' removed (sir__skip_whitespace on a string).
RECURSIVE SkipLeading(_)
SkipLeading(s) ==
    IF s # <<>> /\ LeSpace(Head(s)) THEN SkipLeading(Tail(s)) ELSE s

\* sir_section_long with one message for both ends of the range.
LongResult_OneRangeMessage(opts, r, c) ==
    IF c.status \in {"max", "min"}
    THEN [num |-> Zero, err |-> sir__set_error(opts, r.err,
                                    "more than the maximum long")]
    ELSE IF c.status = "noconv"
    THEN [num |-> Zero, err |-> sir__set_error(opts, r.err,
                                    "could not be converted to long")]
    ELSE [num |-> c.num, err |-> r.err]

\* The branches of sir_section_long on errno and endptr, for the lookup
\* result r and the conversion c of its text.
LongResult(opts, r, c) ==
    IF c.status = "max"
    THEN [num |-> Zero, err |-> sir__set_error(opts, r.err,
                                    "more than the maximum long")]
    ELSE IF c.status = "min"
    THEN [num |-> Zero, err |-> sir__set_error(opts, r.err,
                                    "less than the minimum long")]
    ELSE IF c.status = "noconv"
    THEN [num |-> Zero, err |-> sir__set_error(opts, r.err,
                                    "could not be converted to long")]
    ELSE [num |-> c.num, err |-> r.err]

\* sir_section_long after its lookup returned r.
LongOf(opts, r) ==
    IF sir_has_error(opts, r.err) \/ r.res = Null
    THEN [num |-> Zero, err |-> r.err]
    ELSE LongResult(opts, r, strtol(CStr(data, r.res)))

\* sir_section_long: the number returned (Zero for "return 0") and the
\* error slot afterwards.
sir_section_long(opts, err, sec, key) ==
    LongOf(opts, sir_section_str(opts, err, sec, key))

\* The branches of sir_section_unsigned_long on errno and endptr.
UnsignedLongResult(opts, r, c) ==
    IF c.status = "range"
    THEN [num |-> Zero, err |-> sir__set_error(opts, r.err,
                                    "outside the range of unsigned long")]
    ELSE IF c.status = "noconv"
    THEN [num |-> Zero, err |-> sir__set_error(opts, r.err,
                            "could not be converted to unsigned long")]
    ELSE [num |-> c.num, err |-> r.err]

\* sir_section_unsigned_long after its lookup returned r.
UnsignedLongOf(opts, r) ==
    IF sir_has_error(opts, r.err) \/ r.res = Null
    THEN [num |-> Zero, err |-> r.err]
    ELSE UnsignedLongResult(opts, r, strtoul(CStr(data, r.res)))

sir_section_unsigned_long(opts, err, sec, key) ==
    UnsignedLongOf(opts, sir_section_str(opts, err, sec, key))

\* strncpy(s, str, len); s[len] = '\0': the first len characters.
StrNCpy(s, len) == SubSeq(s, 1, IF Len(s) < len THEN Len(s) ELSE len)

\* The comparison of the text s (leading whitespace skipped) with the two
\* bool strings.
BoolText(opts, r, s) ==
    IF sir__str_equal_case(StrNCpy(s, Len(SIR__BOOL_TRUE_STRING)),
                           SIR__BOOL_TRUE_STRING, TRUE)
    THEN [b |-> 1, err |-> r.err]
    ELSE IF sir__str_equal_case(StrNCpy(s, Len(SIR__BOOL_FALSE_STRING)),
                                SIR__BOOL_FALSE_STRING, TRUE)
    THEN [b |-> 0, err |-> r.err]
    ELSE [b |-> -1,
          err |-> sir__set_error(opts, r.err, "could not parse as bool")]

\* sir_section_bool after its second lookup returned r.
BoolOfStr(opts, r) ==
    IF sir_has_error(opts, r.err) \/ r.res = Null
    THEN [b |-> -1, err |-> r.err]
    ELSE BoolText(opts, r, SkipLeading(CStr(data, r.res)))

\* sir_section_bool after sir_section_long returned l.
BoolOfLong(opts, sec, key, l) ==
    IF ~sir_has_error(opts, l.err)
    THEN [b |-> IF l.num.digits # <<>> THEN 1 ELSE 0, err |-> l.err]
    ELSE BoolOfStr(opts, sir_section_str(opts, l.err, sec, key))

\* sir_section_bool: 1, 0 or -1 and the error slot afterwards.
sir_section_bool(opts, err, sec, key) ==
    BoolOfLong(opts, sec, key, sir_section_long(opts, err, sec, key))

-----------------------------------------------------------------------------
(* CSV split and section enumeration                                       *)

\* The trailing characters <= ' ' removed (the backward loop of
\* sir__trim_whitespace on a copy).
RECURSIVE DropTrailing(_)
DropTrailing(s) ==
    IF s # <<>> /\ LeSpace(s[Len(s)])
    THEN DropTrailing(SubSeq(s, 1, Len(s) - 1)) ELSE s

\* The fields of s: the text between commas, leading whitespace skipped.
RECURSIVE CsvFields(_)
CsvFields(s) ==
    LET n == CHOOSE k \in 0..Len(s) :
                 /\ (k = Len(s) \/ s[k + 1] = ",")
                 /\ \A j \in 1..k : s[j] # ","
    IN  IF n = Len(s) THEN <<SkipLeading(s)>>
        ELSE <<SkipLeading(SubSeq(s, 1, n))>>
             \o CsvFields(SubSeq(s, n + 2, Len(s)))

\* sir_section_csv after the copy of the value was made.
CsvOfCopy(r, copy) ==
    [null |-> FALSE, csv |-> CsvFields(DropTrailing(copy)),
     err |-> r.err, under |-> copy = <<>>]

\* sir_section_csv after its lookup returned r.
CsvOf(opts, r) ==
    IF sir_has_error(opts, r.err) \/ r.res = Null
    THEN [null |-> TRUE, csv |-> <<>>, err |-> r.err, under |-> FALSE]
    ELSE CsvOfCopy(r, SkipLeading(CStr(data, r.res)))

\* sir_section_csv: null, or the array of fields; under is set when the
\* trim of the copied value reads before the copy (an empty value).
sir_section_csv(opts, err, sec, key) ==
    CsvOf(opts, sir_section_str(opts, err, sec, key))

\* What an array entry shows the caller.
Shown(ptr) == IF ptr.t \in {"buf", "lit"} THEN CStr(data, ptr)
              ELSE <<ptr.t>>

\* sir__section_key_array: null, or the copied entries of key_array; crash
\* is set when the function dereferences a null section, which happens
\* when the section is missing and errors are disabled.
sir__section_key_array(opts, err, sec, key_array) ==
    IF sec = Null
    THEN [null |-> TRUE, array |-> <<>>, crash |-> FALSE,
          err |-> sir__set_error(opts, err, "missing parameter")]
    ELSE LET g == sir__get_section(opts, err, sec)
         IN  IF sir_has_error(opts, g.err)
             THEN [null |-> TRUE, array |-> <<>>, crash |-> FALSE,
                   err |-> g.err]
             ELSE IF g.idx = -1
             THEN [null |-> TRUE, array |-> <<>>, crash |-> TRUE,
                   err |-> g.err]
             ELSE LET idxs == RangeIndices(sections[g.idx + 1].ranges, 1)
                  IN  [null |-> FALSE,
                       array |-> [i \in 1..Len(idxs) |->
                                    Shown(key_array[idxs[i] + 1])],
                       crash |-> FALSE,
                       err |-> sir__clear_error_str(opts, g.err)]

-----------------------------------------------------------------------------
(* The query actions                                                       *)

docvars == <<requested, source, args, text, options, data, str, section_count,
             key_count, sections, section_names, key_names, key_values,
             key_cap, prev_index, section_index, key_index, line_number,
             char_number, warnings>>

PastKeys(sec, key) ==
    IF key # Null /\ ReadsPastKeys(options, error, sec)
    THEN ub \cup {"key read past the arrays"} ELSE ub

\* What each query hands back to its caller, as the record kept in ret.
StrAnswer(opts, err, sec, key) ==
    Returned("sir_section_str", sec, key,
             sir_section_str(opts, err, sec, key).res)

LongAnswer(opts, err, sec, key) ==
    IntRet("sir_section_long", sec, key,
           sir_section_long(opts, err, sec, key).num)

UnsignedLongAnswer(opts, err, sec, key) ==
    IntRet("sir_section_unsigned_long", sec, key,
           sir_section_unsigned_long(opts, err, sec, key).num)

BoolAnswer(opts, err, sec, key) ==
    [NoRet EXCEPT !.op = "sir_section_bool", !.sec = sec, !.key = key,
                  !.t = "int",
                  !.n = sir_section_bool(opts, err, sec, key).b]

CsvRecord(sec, key, r) ==
    [NoRet EXCEPT !.op = "sir_section_csv", !.sec = sec, !.key = key,
                  !.t = IF r.null THEN "null" ELSE "list",
                  !.l = r.csv, !.n = Len(r.csv)]

CsvAnswer(opts, err, sec, key) ==
    CsvRecord(sec, key, sir_section_csv(opts, err, sec, key))

KeyArrayRecord(op, sec, r) ==
    [NoRet EXCEPT !.op = op, !.sec = sec,
                  !.t = IF r.crash THEN "crash"
                        ELSE IF r.null THEN "null" ELSE "list",
                  !.l = r.array, !.n = Len(r.array)]

KeyArrayAnswer(opts, err, op, sec, key_array) ==
    KeyArrayRecord(op, sec, sir__section_key_array(opts, err, sec, key_array))

SectionStr ==
    /\ pc = "ready"
    /\ calls < args.maxCalls
    /\ calls' = calls + 1
    /\ \E sec \in args.secs, key \in args.keys :
           /\ error' = sir_section_str(options, error, sec, key).err
           /\ ret' = [StrAnswer(options, error, sec, key)
                      EXCEPT !.was = error]
           /\ ub' = PastKeys(sec, key)
    /\ UNCHANGED <<pc, docvars>>
    /\ UNCHANGED <<heap, threads>>

SectionLong ==
    /\ pc = "ready"
    /\ calls < args.maxCalls
    /\ calls' = calls + 1
    /\ \E sec \in args.secs, key \in args.keys :
           /\ error' = sir_section_long(options, error, sec, key).err
           /\ ret' = [LongAnswer(options, error, sec, key)
                      EXCEPT !.was = error]
           /\ ub' = PastKeys(sec, key)
    /\ UNCHANGED <<pc, docvars>>
    /\ UNCHANGED <<heap, threads>>

SectionUnsignedLong ==
    /\ pc = "ready"
    /\ calls < args.maxCalls
    /\ calls' = calls + 1
    /\ \E sec \in args.secs, key \in args.keys :
           /\ error' = sir_section_unsigned_long(options, error, sec, key).err
           /\ ret' = [UnsignedLongAnswer(options, error, sec, key)
                      EXCEPT !.was = error]
           /\ ub' = PastKeys(sec, key)
    /\ UNCHANGED <<pc, docvars>>
    /\ UNCHANGED <<heap, threads>>

SectionBool ==
    /\ pc = "ready"
    /\ calls < args.maxCalls
    /\ calls' = calls + 1
    /\ \E sec \in args.secs, key \in args.keys :
           /\ error' = sir_section_bool(options, error, sec, key).err
           /\ ret' = [BoolAnswer(options, error, sec, key)
                      EXCEPT !.was = error]
           /\ ub' = PastKeys(sec, key)
    /\ UNCHANGED <<pc, docvars>>
    /\ UNCHANGED <<heap, threads>>

SectionCsv ==
    /\ pc = "ready"
    /\ calls < args.maxCalls
    /\ calls' = calls + 1
    /\ \E sec \in args.secs, key \in args.keys :
       \E r \in {sir_section_csv(options, error, sec, key)} :
           /\ error' = r.err
           /\ ret' = [CsvRecord(sec, key, r) EXCEPT !.was = error]
           /\ ub' = PastKeys(sec, key)
                      \cup (IF r.under
                            THEN {"trim reads before the copied value"}
                            ELSE {})
    /\ UNCHANGED <<pc, docvars>>
    /\ UNCHANGED <<heap, threads>>

\* sir_section_key_names and sir_section_key_values.
KeyArrayCall(op, key_array) ==
    /\ pc = "ready"
    /\ calls < args.maxCalls
    /\ calls' = calls + 1
    /\ \E sec \in args.secs :
       \E r \in {sir__section_key_array(options, error, sec, key_array)} :
           /\ error' = r.err
           /\ ret' = [KeyArrayRecord(op, sec, r) EXCEPT !.was = error]
           /\ pc' = IF r.crash THEN "crashed" ELSE pc
           /\ ub' = (IF r.crash THEN ub \cup {"null section dereferenced"}
                     ELSE ub)
                    \cup (IF ReadsPastKeys(options, error, sec)
                          THEN {"key read past the arrays"} ELSE {})
    /\ UNCHANGED docvars
    /\ UNCHANGED <<heap, threads>>

SectionKeyNames == KeyArrayCall("sir_section_key_names", key_names)

SectionKeyValues == KeyArrayCall("sir_section_key_values", key_values)

Next ==
    \/ LoadFromFileFail
    \/ LoadFromStr
    \/ StripStep
    \/ StripDone
    \/ WarnStep
    \/ WarnDone
    \/ Alloc
    \/ ParseSection
    \/ ParseKey
    \/ ParseBlank
    \/ ParseDone
    \/ SectionStr
    \/ SectionLong
    \/ SectionUnsignedLong
    \/ SectionBool
    \/ SectionCsv
    \/ SectionKeyNames
    \/ SectionKeyValues

-----------------------------------------------------------------------------
(* sir_section_str called by several threads on one document: a step is    *)
(* one access of the error slot that the threads share                     *)

\* A thread calls sir_section_str(ini, sec, key); mid records that another
\* thread is inside its call at this moment.
ThreadCall(t) ==
    /\ pc = "ready"
    /\ threads[t].pc = "idle"
    /\ \E sec \in args.secs, key \in args.keys :
         threads' = [threads EXCEPT ![t] =
                       [Idle EXCEPT !.pc = "entered", !.sec = sec,
                                    !.key = key,
                                    !.mid = \E u \in DOMAIN threads :
                                              threads[u].pc
                                                \notin {"idle", "done"}]]
    /\ UNCHANGED <<pc, docvars, calls, error, ret, ub, heap>>

\* "if (!key_name)" and "section = sir__get_section(ini, section_name)":
\* the error slot is set or cleared.
ThreadGetSection(t) ==
    /\ pc = "ready"
    /\ threads[t].pc = "entered"
    /\ IF threads[t].key = Null
       THEN /\ error' = sir__set_error(options, error, "missing parameter")
            /\ threads' = [threads EXCEPT ![t].pc = "returned"]
       ELSE IF threads[t].sec = Null
       THEN /\ error' = error
            /\ threads' = [threads EXCEPT ![t].pc = "scan"]
       ELSE \E g \in {sir__get_section(options, error, threads[t].sec)} :
              /\ error' = g.err
              /\ threads' = [threads EXCEPT ![t].pc = "check",
                                            ![t].idx = g.idx]
    /\ UNCHANGED <<pc, docvars, calls, ret, ub, heap>>

\* "if (sir_has_error(ini)) return 0;": the error slot is read.
ThreadCheck(t) ==
    /\ pc = "ready"
    /\ threads[t].pc = "check"
    /\ threads' = [threads EXCEPT ![t].pc = IF sir_has_error(options, error)
                                            THEN "returned" ELSE "scan"]
    /\ UNCHANGED <<pc, docvars, calls, error, ret, ub, heap>>

\* The scan of the ranges of section idx, or of all keys when there is no
\* section: the pointer to return and the error slot afterwards.
ScanKeys(opts, err, idx, key, j, v) ==
    IF idx # -1
    THEN IF j # -1
         THEN [res |-> key_values[j + 1],
               err |-> sir__clear_error_str(opts, err)]
         ELSE [res |-> Null,
               err |-> sir__set_error(opts, err, "key not found in section")]
    ELSE IF v # Null
         THEN [res |-> v, err |-> sir__clear_error_str(opts, err)]
         ELSE [res |-> Null,
               err |-> sir__set_error(opts, err, "key not found")]

ThreadScan(t) ==
    /\ pc = "ready"
    /\ threads[t].pc = "scan"
    /\ \E r \in {ScanKeys(options, error, threads[t].idx, threads[t].key,
                          IF threads[t].idx = -1 THEN -1
                          ELSE FirstMatch(options,
                                 RangeIndices(
                                   sections[threads[t].idx + 1].ranges, 1),
                                 threads[t].key),
                          GlobalScan(options, 0, threads[t].key, Null))} :
         /\ error' = r.err
         /\ threads' = [threads EXCEPT ![t].pc = "returned",
                                       ![t].res = r.res]
    /\ UNCHANGED <<pc, docvars, calls, ret, ub, heap>>

\* The caller asks sir_has_error(ini) after its call has returned.
ThreadHasError(t) ==
    /\ pc = "ready"
    /\ threads[t].pc = "returned"
    /\ threads' = [threads EXCEPT ![t].pc = "done",
                                  ![t].has = sir_has_error(options, error)]
    /\ UNCHANGED <<pc, docvars, calls, error, ret, ub, heap>>

ThreadsCall == \E t \in DOMAIN threads : ThreadCall(t)

ThreadsGetSection == \E t \in DOMAIN threads : ThreadGetSection(t)

ThreadsCheck == \E t \in DOMAIN threads : ThreadCheck(t)

ThreadsScan == \E t \in DOMAIN threads : ThreadScan(t)

ThreadsHasError == \E t \in DOMAIN threads : ThreadHasError(t)

\* The load, and the lookups of the threads.
NextThreads ==
    \/ LoadFromFileFail
    \/ LoadFromStr
    \/ StripStep
    \/ StripDone
    \/ WarnStep
    \/ WarnDone
    \/ Alloc
    \/ ParseSection
    \/ ParseKey
    \/ ParseBlank
    \/ ParseDone
    \/ ThreadsCall
    \/ ThreadsGetSection
    \/ ThreadsCheck
    \/ ThreadsScan
    \/ ThreadsHasError

-----------------------------------------------------------------------------
(* sir_free_ini                                                            *)

\* The members of the document that sir_free_ini frees when they are not
\* null.
FreedMembers ==
    {"data", "sections", "section_names", "key_names", "key_values",
     "filename", "error", "error_msg", "warnings"}

\* A member is not null once its block was obtained (sir__create_ini
\* zeroes the document).
NotNull(h, member) == Block(member, 0) \in h.live \cup h.freed

\* sir_free_ini: the range list of each of the section_count sections, the
\* warnings_count warning strings, the members that are not null, and the
\* document itself.
sir_free_ini ==
    /\ pc = "ready"
    /\ heap' = Free(heap,
                 { Block("sections[i].ranges", i) :
                     i \in 0..(section_count - 1) }
                 \cup { Block("warnings[i]", i - 1) : i \in 1..Len(warnings) }
                 \cup { Block(m, 0) : m \in { n \in FreedMembers :
                                               NotNull(heap, n) } }
                 \cup {Block("ini", 0)})
    /\ pc' = "freed"
    /\ UNCHANGED <<docvars, calls, error, ret, ub, threads>>

\* The load, and the release of the document.
NextFree ==
    \/ LoadFromFileFail
    \/ LoadFromStr
    \/ StripStep
    \/ StripDone
    \/ WarnStep
    \/ WarnDone
    \/ Alloc
    \/ ParseSection
    \/ ParseKey
    \/ ParseBlank
    \/ ParseDone
    \/ sir_free_ini

\* sir_load_from_str and sir_load_from_file alone: a document is loaded and
\* not used.
NextLoad ==
    \/ LoadFromFileFail
    \/ LoadFromStr
    \/ StripStep
    \/ StripDone
    \/ WarnStep
    \/ WarnDone
    \/ Alloc
    \/ ParseSection
    \/ ParseKey
    \/ ParseBlank
    \/ ParseDone

-----------------------------------------------------------------------------
(* Specifications                                                          *)

\* Most lines of a text of the duplicate-key specification.
MaxDupLines == 5

Str(name) == Lit(name)

DupLines == { <<"[", "a", "]", "\n">>, <<"[", "b", "]", "\n">>,
              <<"k", "=", "1", "\n">>, <<"k", "=", "2", "\n">> }

\* Texts of headers [a], [b] and key lines k=1, k=2, parsed with the
\* default and with the override policy, and queried once.
Init ==
    InitWith(TextsOf(DupLines, MaxDupLines),
             {{}, {"OVERRIDE_DUPLICATE_KEYS"}},
             {"ok", "unavailable"},
             {Null, Str(<<"a">>), Str(SIR_GLOBAL_SECTION_NAME)},
             {Str(<<"k">>)}, 1)

Spec == Init /\ [][Next]_vars

\* Most lines of a text of the specification of the unscoped lookup.
MaxGlobalLines == 4

\* The same lines, queried once with or without a section.
InitGlobal ==
    InitWith(TextsOf(DupLines, MaxGlobalLines),
             {{}, {"OVERRIDE_DUPLICATE_KEYS"}},
             {"ok", "unavailable"},
             {Null, Str(<<"b">>)},
             {Str(<<"k">>)}, 1)

SpecGlobal == InitGlobal /\ [][Next]_vars

\* Most lines of a text of the specification of the error slot.
MaxErrLines == 2

\* Most queries made one after the other on a document.
MaxCalls == 2

\* A header and key lines whose value is a number, a bool, no number at
\* all, and a number no long can hold.
ErrLines == { <<"[", "a", "]", "\n">>,
              <<"k", "=", "1", "\n">>, <<"k", "=", "t", "r", "u", "e", "\n">>,
              <<"k", "=", "x", "\n">>,
              <<"k", "=">> \o [i \in 1..20 |-> "9"] \o <<"\n">> }

\* Documents with and without error tracking, queried with and without a
\* section and a key.
InitErr ==
    InitWith(TextsOf(ErrLines, MaxErrLines),
             {{}, {"DISABLE_ERRORS"}},
             {"ok", "unavailable"},
             {Null, Str(<<"a">>)},
             {Null, Str(<<"k">>)}, MaxCalls)

SpecErr == InitErr /\ [][Next]_vars

\* Most lines of a text of the specification of the warning list.
MaxWarnLines == 2

\* A header, an unterminated header, a key line, and a key line with
\* brackets in its name and in its value.
WarnLines == { <<"[", "a", "]", "\n">>, <<"[", "a", "\n">>,
               <<"k", "=", "1", "\n">>, <<"k", "]", "=", "[", "\n">> }

\* Documents with and without warnings and error tracking.
InitWarn ==
    InitWith(TextsOf(WarnLines, MaxWarnLines),
             SUBSET {"DISABLE_WARNINGS", "DISABLE_ERRORS"},
             {"ok", "unavailable"},
             {Null, Str(<<"a">>)},
             {Str(<<"k">>)}, 1)

SpecWarn == InitWarn /\ [][Next]_vars

\* Most characters of the value text of the specification of values.
MaxValueLen == 3

ValueChars == {"a", " ", "\"", ":"}

\* What follows the value text: nothing, a newline, or a newline and a
\* line with an empty key name or a header.
ValueTails == { <<>>, <<"\n">>, <<"\n", "=", "a", "\n">>,
                <<"\n", "[", "a", "]", "\n">> }

\* Texts "k=" value tail, parsed with and without quoting.
InitQuote ==
    InitWith({ <<"k", "=">> \o v \o t :
                 v \in UNION { [1..n -> ValueChars] : n \in 0..MaxValueLen },
                 t \in ValueTails },
             {{}, {"DISABLE_QUOTES"}},
             {"ok", "unavailable"},
             {Null, Str(SIR_GLOBAL_SECTION_NAME)},
             {Str(<<"k">>)}, 1)

SpecQuote == InitQuote /\ [][Next]_vars

\* Most lines of a text of the specification of letter case.
MaxCaseLines == 3

CaseLines == { <<"[", "a", "]", "\n">>, <<"[", "A", "]", "\n">>,
               <<"k", "=", "1", "\n">>, <<"K", "=", "2", "\n">> }

\* Texts with both letter cases of a section and of a key name, looked up
\* with both letter cases, with and without case sensitivity.
InitCase ==
    InitWith(TextsOf(CaseLines, MaxCaseLines),
             {{}, {"DISABLE_CASE_SENSITIVITY"}},
             {"ok", "unavailable"},
             {Null, Str(<<"a">>), Str(<<"A">>)},
             {Str(<<"k">>), Str(<<"K">>)}, 1)

SpecCase == InitCase /\ [][Next]_vars

\* Most characters of the value text of the specification of the CSV split.
MaxCsvLen == 4

CsvChars == {"a", " ", ","}

\* What follows the value text: a newline, or a newline and a header.
CsvTails == { <<"\n">>, <<"\n", "[", "a", "]", "\n">> }

\* Texts "k=" value tail, whose key is split at its commas.
InitCsv ==
    InitWith({ <<"k", "=">> \o v \o t :
                 v \in UNION { [1..n -> CsvChars] : n \in 0..MaxCsvLen },
                 t \in CsvTails },
             {{}},
             {"ok", "unavailable"},
             {Null, Str(SIR_GLOBAL_SECTION_NAME)},
             {Str(<<"k">>)}, 1)

SpecCsv == InitCsv /\ [][Next]_vars

\* Most lines of a text of the specification of empty values.
MaxEmptyLines == 3

EmptyLines ==
    { <<"[", "a", "]", "\n">>, <<"k", "=", "1", "\n">>,
      <<"k", "=", "\n">> }

\* The last line of a text, which has no newline: none, "j==" or "j=1:2".
EmptyEnds ==
    { <<>>, <<"j", "=", "=">>, <<"j", "=", "1", ":", "2">> }

InitEmpty ==
    InitWith({ Flatten(ls) \o e :
                 ls \in UNION { [1..n -> EmptyLines] : n \in 0..MaxEmptyLines },
                 e \in EmptyEnds },
             {{}, {"IGNORE_EMPTY_VALUES"}},
             {"ok", "unavailable"},
             {Null, Str(<<"a">>)},
             {Str(<<"k">>), Str(<<"j">>)}, 1)

SpecEmpty == InitEmpty /\ [][Next]_vars

\* Most lines of a text of the specification of the integer range.
MaxRangeLines == 2

\* Twenty nines: more than LONG_MAX and than ULONG_MAX.
Nines == [i \in 1..20 |-> "9"]

\* A header and key lines whose value is a small number, no number at all,
\* a number above every long and unsigned long, and a number below.
RangeLines ==
    { <<"[", "a", "]", "\n">>, <<"k", "=", "7", "\n">>,
      <<"k", "=", "x", "\n">>,
      <<"k", "=">> \o Nines \o <<"\n">>,
      <<"k", "=", "-">> \o Nines \o <<"\n">> }

InitRange ==
    InitWith(TextsOf(RangeLines, MaxRangeLines),
             {{}},
             {"ok", "unavailable"},
             {Null, Str(<<"a">>)},
             {Str(<<"k">>)}, 1)

SpecRange == InitRange /\ [][Next]_vars

\* Most lines of a text of the specification of the bool conversion.
MaxBoolLines == 2

\* A header and key lines whose value is a number, a bool string in lower
\* and in upper case, a bool string with one more character, and neither.
BoolLines ==
    { <<"[", "a", "]", "\n">>,
      <<"k", "=", "1", "\n">>, <<"k", "=", "0", "\n">>,
      <<"k", "=", "t", "r", "u", "e", "\n">>,
      <<"k", "=", "F", "A", "L", "S", "E", "\n">>,
      <<"k", "=", "t", "r", "u", "e", "x", "\n">>,
      <<"k", "=", "x", "\n">> }

InitBool ==
    InitWith(TextsOf(BoolLines, MaxBoolLines),
             {{}, {"DISABLE_CASE_SENSITIVITY"}},
             {"ok", "unavailable"},
             {Null, Str(<<"a">>)},
             {Str(<<"k">>)}, 1)

SpecBool == InitBool /\ [][Next]_vars

\* Most lines of a text of the specification of the threads.
MaxThreadLines == 2

ThreadLines == { <<"[", "a", "]", "\n">>, <<"k", "=", "1", "\n">> }

\* Documents with and without error tracking; each thread looks up key k
\* in no section, in section a or in section b, which no text has.
InitThreads ==
    InitWith(TextsOf(ThreadLines, MaxThreadLines),
             {{}, {"DISABLE_ERRORS"}},
             {"ok", "unavailable"},
             {Null, Str(<<"a">>), Str(<<"b">>)},
             {Str(<<"k">>)}, 0)

SpecThreads == InitThreads /\ [][NextThreads]_vars

\* Most lines of a text of the specification of the release.
MaxFreeLines == 3

\* A header, a second header, a key line, and a key line with a warning.
FreeLines ==
    { <<"[", "a", "]", "\n">>, <<"[", "b", "]", "\n">>,
      <<"k", "=", "1", "\n">>, <<"k", "]", "=", "1", "\n">> }

InitFree ==
    InitWith(TextsOf(FreeLines, MaxFreeLines),
             {{}, {"DISABLE_ERRORS"}},
             {"ok", "unavailable"},
             {Null}, {Null}, 0)

SpecFree == InitFree /\ [][NextFree]_vars

\* Most characters of the first part of a text of the specification of
\* the comments.
MaxCommentLen == 4

CommentChars == {";", "#", "a", "\n"}

\* What follows the first part: nothing, or the rest of a key line and a
\* header.
CommentTails == { <<>>, <<"=", "1", "\n", "[", "a", "]", "\n">> }

InitComment ==
    InitWith({ c \o t :
                 c \in UNION { [1..n -> CommentChars] : n \in 0..MaxCommentLen },
                 t \in CommentTails },
             SUBSET {"DISABLE_HASH_COMMENTS", "DISABLE_COMMENT_ANYWHERE"},
             {"ok", "unavailable"},
             {Null}, {Str(<<"a">>)}, 1)

SpecComment == InitComment /\ [][Next]_vars

\* Most lines of a text of the specification of section headers.
MaxSectionLines == 4

SectionLines ==
    { <<"[", "a", "]", "\n">>, <<"[", "A", "]", "\n">>,
      <<"k", "=", "1", "\n">>,
      <<"[">> \o SIR_GLOBAL_SECTION_NAME \o <<"]", "\n">> }

\* Texts with headers that repeat, that differ in letter case and that
\* spell the reserved name, loaded with and without case sensitivity.
InitSections ==
    InitWith(TextsOf(SectionLines, MaxSectionLines),
             {{}, {"DISABLE_CASE_SENSITIVITY"}},
             {"ok", "unavailable"},
             {Null}, {Null}, 0)

SpecSections == InitSections /\ [][NextLoad]_vars

\* Most lines before the last line of a text of the specification of a
\* last line without an assignment character.
MaxBareLines == 2

BareLines == { <<"[", "a", "]", "\n">>, <<"k", "=", "1", "\n">> }

\* The last line, with and without its newline, or none.
BareEnds == { <<"j">>, <<"j", "\n">>, <<>> }

\* Texts that end with the line "j", looked up with and without
\* SIR_OPTION_IGNORE_EMPTY_VALUES.
InitBare ==
    InitWith({ t \o e : t \in TextsOf(BareLines, MaxBareLines),
                        e \in BareEnds },
             {{}, {"IGNORE_EMPTY_VALUES"}},
             {"ok", "unavailable"},
             {Null, Str(<<"a">>), Str(SIR_GLOBAL_SECTION_NAME)},
             {Str(<<"j">>)}, 1)

SpecBare == InitBare /\ [][Next]_vars

\* Most characters after the first one of a key line of the specification
\* of assignment characters.
MaxColonLen == 4

ColonChars == {"b", "=", ":"}

\* The end of the key line: a newline, the end of the text, or a newline
\* and a header.
ColonTails == { <<"\n">>, <<>>, <<"\n", "[", "b", "]", "\n">> }

\* Texts of one key line that starts with "a", parsed with and without
\* colon assignment.
InitColon ==
    InitWith({ <<"a">> \o v \o t :
                 v \in UNION { [1..n -> ColonChars] : n \in 0..MaxColonLen },
                 t \in ColonTails },
             {{}, {"DISABLE_COLON_ASSIGNMENT"}},
             {"ok", "unavailable"},
             {Null}, {Null}, 0)

SpecColon == InitColon /\ [][NextLoad]_vars

\* Most lines of a text of the specification of warning positions.
MaxDiagLines == 3

\* A header, a header that is closed on the next line or never, a key
\* line, key lines with brackets or with an assignment character in a
\* header, and a comment with a bracket.
DiagLines ==
    { <<"[", "a", "]", "\n">>, <<"[", "a", "\n">>, <<"=", "]", "\n">>,
      <<"k", "=", "1", "\n">>, <<"k", "]", "=", "[", "\n">>,
      <<" ", ";", "[", "\n">> }

InitDiag ==
    InitWith(TextsOf(DiagLines, MaxDiagLines),
             {{}, {"DISABLE_ERRORS"}},
             {"ok", "unavailable"},
             {Null}, {Null}, 0)

SpecDiag == InitDiag /\ [][NextLoad]_vars

\* Most characters of a text of the specification of the main loop.
MaxLoopLen == 3

\* With colon assignment ':' is the assignment character of these texts,
\* without it they have none.
LoopChars == {"[", "]", ":", "\"", "\n", "a"}

\* Every text of at most MaxLoopLen characters, parsed with and without
\* quoting and colon assignment.
InitLoop ==
    InitWith(UNION { [1..n -> LoopChars] : n \in 0..MaxLoopLen },
             SUBSET {"DISABLE_QUOTES", "DISABLE_COLON_ASSIGNMENT"},
             {"ok", "unavailable"},
             {Null}, {Null}, 0)

\* The main loop and the code that follows it.
MainLoop == ParseSection \/ ParseKey \/ ParseBlank \/ ParseDone

\* sir_load_from_str is sequential code: a call that is in its main loop
\* takes the next iteration, or leaves the loop and returns.
SpecLoop == InitLoop /\ [][NextLoad]_vars /\ WF_vars(MainLoop)

-----------------------------------------------------------------------------
(* The text as its author reads it: lines, headers and key lines           *)

\* The index of the first character of s that is in set cs, 0 if none.
FirstOf(s, cs) ==
    LET m == { i \in 1..Len(s) : s[i] \in cs }
    IN  IF m = {} THEN 0 ELSE CHOOSE i \in m : \A j \in m : i <= j

\* The lines of a text (without their newline).
RECURSIVE LinesOf(_)
LinesOf(t) ==
    LET n == FirstOf(t, {"\n"})
    IN  IF n = 0 THEN (IF t = <<>> THEN <<>> ELSE <<t>>)
        ELSE <<SubSeq(t, 1, n - 1)>> \o LinesOf(SubSeq(t, n + 1, Len(t)))

Trimmed(s) == DropTrailing(SkipLeading(s))

AssignmentChars(opts) ==
    IF "DISABLE_COLON_ASSIGNMENT" \in opts THEN {"="} ELSE {"=", ":"}

IsHeaderLine(line) ==
    /\ Trimmed(line) # <<>>
    /\ Head(Trimmed(line)) = "["
    /\ FirstOf(Trimmed(line), {"]"}) # 0

HeaderName(line) ==
    LET t == Trimmed(line)
    IN  Trimmed(SubSeq(t, 2, FirstOf(t, {"]"}) - 1))

IsKeyLine(opts, line) ==
    /\ Trimmed(line) # <<>>
    /\ Head(Trimmed(line)) # "["
    /\ FirstOf(line, AssignmentChars(opts)) # 0

KeyLineName(opts, line) ==
    Trimmed(SubSeq(line, 1, FirstOf(line, AssignmentChars(opts)) - 1))

\* The value of a key line none of whose characters is a double-quote.
KeyLineValue(opts, line) ==
    Trimmed(SubSeq(line, FirstOf(line, AssignmentChars(opts)) + 1,
                   Len(line)))

\* The key lines of the text in file order, each with the section it is
\* written under and the number of headers that precede it.
RECURSIVE EntriesOf(_, _, _, _)
EntriesOf(opts, lines, sec, hdr) ==
    IF lines = <<>> THEN <<>>
    ELSE IF IsHeaderLine(Head(lines))
    THEN EntriesOf(opts, Tail(lines), HeaderName(Head(lines)), hdr + 1)
    ELSE IF IsKeyLine(opts, Head(lines))
    THEN <<[sec |-> sec, key |-> KeyLineName(opts, Head(lines)),
            value |-> KeyLineValue(opts, Head(lines)), hdr |-> hdr]>>
         \o EntriesOf(opts, Tail(lines), sec, hdr)
    ELSE EntriesOf(opts, Tail(lines), sec, hdr)

Entries == EntriesOf(options, LinesOf(text), SIR_GLOBAL_SECTION_NAME, 0)

\* The header names of the text in file order.
RECURSIVE HeadersOf(_)
HeadersOf(lines) ==
    IF lines = <<>> THEN <<>>
    ELSE IF IsHeaderLine(Head(lines))
    THEN <<HeaderName(Head(lines))>> \o HeadersOf(Tail(lines))
    ELSE HeadersOf(Tail(lines))

Headers == HeadersOf(LinesOf(text))

\* The positions, in Entries, of key k written under section s / anywhere.
InSection(s, k) ==
    { i \in 1..Len(Entries) : Entries[i].sec = s /\ Entries[i].key = k }

Anywhere(k) == { i \in 1..Len(Entries) : Entries[i].key = k }

Min(S) == CHOOSE i \in S : \A j \in S : i <= j

Max(S) == CHOOSE i \in S : \A j \in S : i >= j

Loaded == pc = "ready" /\ source = "ok"

AfterStr == Loaded /\ ret.op = "sir_section_str" /\ ret.key # Null

-----------------------------------------------------------------------------
(* C1 - C4: duplicate keys, reopened sections, scoped lookup               *)

\* C1: when key k occurs more than once inside section s, the lookup
\* sir_section_str(s, k) returns the value of the first occurrence under
\* the default policy and of the last occurrence under
\* SIR_OPTION_OVERRIDE_DUPLICATE_KEYS.
C1_ScopedDuplicatePolicy ==
    (AfterStr /\ ret.sec # Null
       /\ Cardinality(InSection(ret.sec.s, ret.key.s)) > 1)
    => /\ ret.t = "str"
       /\ ret.s = Entries[IF "OVERRIDE_DUPLICATE_KEYS" \in options
                          THEN Max(InSection(ret.sec.s, ret.key.s))
                          ELSE Min(InSection(ret.sec.s, ret.key.s))].value

\* C2: when key k is present in two different sections, sir_str(k) returns
\* the value of the occurrence that is first in file order under the
\* default policy and of the one that is last under the override policy.
C2_GlobalDuplicatePolicy ==
    (AfterStr /\ ret.sec = Null
       /\ \E i, j \in Anywhere(ret.key.s) : Entries[i].sec # Entries[j].sec)
    => /\ ret.t = "str"
       /\ ret.s = Entries[IF "OVERRIDE_DUPLICATE_KEYS" \in options
                          THEN Max(Anywhere(ret.key.s))
                          ELSE Min(Anywhere(ret.key.s))].value

\* Under the override policy, a key with different values in two sections
\* is looked up without a section and the last value comes back.
C2_Witness ==
    /\ AfterStr /\ ret.sec = Null
    /\ "OVERRIDE_DUPLICATE_KEYS" \in options
    /\ \E i, j \in Anywhere(ret.key.s) : Entries[i].sec # Entries[j].sec
    /\ Entries[Max(Anywhere(ret.key.s))].value
         # Entries[Min(Anywhere(ret.key.s))].value
    /\ ret.s = Entries[Max(Anywhere(ret.key.s))].value

\* The sections of the document that carry the name.
SectionsNamed(name) ==
    { i \in 1..section_count :
        section_names[i].t \in {"buf", "lit"}
        /\ CStr(data, section_names[i]) = name }

ShapeABA == Headers = << <<"a">>, <<"b">>, <<"a">> >>

\* C3: for a text of the shape [a] ... [b] ... [a] there is exactly one
\* Section named a, it holds two Ranges, and every key written under the
\* second [a] is returned by sir_section_str(ini, "a", key).
C3_ReopenedSection ==
    (Loaded /\ ShapeABA)
    => /\ Cardinality(SectionsNamed(<<"a">>)) = 1
       /\ \A i \in SectionsNamed(<<"a">>) : Len(sections[i].ranges) = 2
       /\ (ret.op = "sir_section_str" /\ ret.sec = Str(<<"a">>)
             /\ ret.key # Null
             /\ \E e \in 1..Len(Entries) :
                   Entries[e].hdr = 3 /\ Entries[e].key = ret.key.s)
          => ret.t = "str"

\* C4: sir_section_str(s, k) returns a value exactly when key k is written
\* under section s in the text (keys before the first header count as
\* written under "global"); otherwise it returns null and reports NotFound.
C4_ScopedLookupExact ==
    (AfterStr /\ ret.sec # Null /\ sir__errors_enabled(options))
    => /\ ret.t = "str" <=> InSection(ret.sec.s, ret.key.s) # {}
       /\ ret.t # "str"
            => /\ ret.t = "null"
               /\ error \in {"section not found", "key not found in section"}
-----------------------------------------------------------------------------
(* C5 - C8: the error slot and the warning list                            *)

\* The state right after a call of the API returned.
AfterCall == pc = "ready" /\ ret.op # "none"

\* The text of the value that the conversion of the last call read, null
\* when its lookup failed.
ConvertedText ==
    sir_section_str(options, ret.was, ret.sec, ret.key).res

\* The last call failed: the source was unavailable, a lookup, a CSV split
\* or an enumeration returned null, an integer conversion found no value or
\* no number a long can hold, a bool conversion returned -1.
CallFailed ==
    CASE ret.op = "load" -> source = "unavailable"
      [] ret.op = "sir_section_long" ->
           \/ ConvertedText = Null
           \/ strtol(CStr(data, ConvertedText)).status # "ok"
      [] ret.op = "sir_section_unsigned_long" ->
           \/ ConvertedText = Null
           \/ strtoul(CStr(data, ConvertedText)).status # "ok"
      [] ret.op = "sir_section_bool" -> ret.n = -1
      [] OTHER -> ret.t = "null"

\* C5: with error tracking enabled, sir_has_error is true right after a
\* call exactly when that call failed, whatever the calls before it left in
\* the error slot.
C5_ErrorIffFailed ==
    (AfterCall /\ sir__errors_enabled(options))
    => (sir_has_error(options, error) <=> CallFailed)

\* A bool read from "true" right after a call that failed.
C5_Witness ==
    /\ AfterCall /\ sir__errors_enabled(options)
    /\ ret.was \notin {"", "uninit"}
    /\ ret.op = "sir_section_bool" /\ ret.n = 1
    /\ CStr(data, ConvertedText) = SIR__BOOL_TRUE_STRING
    /\ ~sir_has_error(options, error)

\* C6 as stated: for a document requested with SIR_OPTION_DISABLE_ERRORS,
\* sir_has_error is false after the load and after every later operation.
C6_NeverAnErrorWhenDisabled ==
    (AfterCall /\ "DISABLE_ERRORS" \in requested)
    => ~sir_has_error(options, error)

\* C6 amended: for a document requested with SIR_OPTION_DISABLE_ERRORS
\* whose source could be read, sir_has_error is false after the load and
\* after every later operation; when the source of sir_load_from_file is
\* unavailable the document returned tracks errors and has its error set.
C6_NoErrorWhenDisabledAndLoaded ==
    (AfterCall /\ "DISABLE_ERRORS" \in requested)
    => (sir_has_error(options, error) <=> source = "unavailable")

\* A lookup of a missing key or section on a document without error
\* tracking.
C6_Witness ==
    /\ Loaded /\ "DISABLE_ERRORS" \in requested
    /\ ret.op = "sir_section_str" /\ ret.key # Null /\ ret.t = "null"
    /\ ~sir_has_error(options, error)

\* The answer of the last query on the same document with the options
\* opts.
Answer(opts) ==
    CASE ret.op = "sir_section_str" -> StrAnswer(opts, "", ret.sec, ret.key)
      [] ret.op = "sir_section_long" ->
           LongAnswer(opts, "", ret.sec, ret.key)
      [] ret.op = "sir_section_unsigned_long" ->
           UnsignedLongAnswer(opts, "", ret.sec, ret.key)
      [] ret.op = "sir_section_bool" ->
           BoolAnswer(opts, "", ret.sec, ret.key)
      [] ret.op = "sir_section_csv" -> CsvAnswer(opts, "", ret.sec, ret.key)
      [] ret.op = "sir_section_key_names" ->
           KeyArrayAnswer(opts, "", ret.op, ret.sec, key_names)
      [] ret.op = "sir_section_key_values" ->
           KeyArrayAnswer(opts, "", ret.op, ret.sec, key_values)
      [] OTHER -> NoRet

\* C7: a query on a document parsed with SIR_OPTION_DISABLE_ERRORS returns
\* what the same query returns on the document parsed from the same text
\* without the option (the parse does not read the option, so that is the
\* same document with the option cleared).
C7_SameAnswerWithoutErrors ==
    (pc \in {"ready", "crashed"} /\ source = "ok"
       /\ "DISABLE_ERRORS" \in options /\ ret.op \notin {"none", "load"})
    => [ret EXCEPT !.was = ""] = Answer(options \ {"DISABLE_ERRORS"})

\* A line of the text that opens a section name and never closes it.
HasOpenHeader ==
    \E i \in 1..Len(LinesOf(text)) :
       /\ SkipLeading(LinesOf(text)[i]) # <<>>
       /\ Head(SkipLeading(LinesOf(text)[i])) = SIR__SECTION_NAME_OPEN_CHAR
       /\ FirstOf(LinesOf(text)[i], {SIR__SECTION_NAME_CLOSE_CHAR}) = 0

\* C8: a parse requested with SIR_OPTION_DISABLE_WARNINGS leaves the
\* warning list empty, also for a text with an unterminated section header
\* (which gets a warning without the option), and sir_has_error is false
\* after the parse with and without the option.
C8_WarningsDisabled ==
    (Loaded /\ ret.op = "load")
    => /\ "DISABLE_WARNINGS" \in requested => warnings = <<>>
       /\ ("DISABLE_WARNINGS" \notin requested /\ HasOpenHeader)
            => warnings # <<>>
       /\ ~sir_has_error(options, error)

\* A text with an unterminated header parsed without warnings.
C8_Witness ==
    /\ Loaded /\ ret.op = "load"
    /\ "DISABLE_WARNINGS" \in requested
    /\ HasOpenHeader
    /\ warnings = <<>>

-----------------------------------------------------------------------------
(* C9: value extraction                                                    *)

\* The text after the assignment character of the first line "k=...", and
\* its part up to the next newline (or the end of the text).
AfterAssignment == SubSeq(text, 3, Len(text))

RestOfLine ==
    IF FirstOf(AfterAssignment, {"\n"}) = 0 THEN AfterAssignment
    ELSE SubSeq(AfterAssignment, 1, FirstOf(AfterAssignment, {"\n"}) - 1)

\* Quoting is enabled and a double-quote occurs before the next newline.
IsQuoted ==
    /\ "DISABLE_QUOTES" \notin options
    /\ FirstOf(RestOfLine, {"\""}) # 0

AfterFirstQuote ==
    SubSeq(AfterAssignment, FirstOf(RestOfLine, {"\""}) + 1,
           Len(AfterAssignment))

HasSecondQuote == FirstOf(AfterFirstQuote, {"\""}) # 0

\* The value the line gives its key: the characters between the first and
\* the second double-quote, or the rest of the line, trimmed.
ValueOfLine ==
    IF IsQuoted
    THEN SubSeq(AfterFirstQuote, 1, FirstOf(AfterFirstQuote, {"\""}) - 1)
    ELSE Trimmed(RestOfLine)

\* The value stored for the first key of the document.
StoredValue == CStr(data, key_values[1])

\* C9: the value stored for a key line is the text between the first and
\* the second double-quote, untrimmed, when quoting is enabled and the rest
\* of the line has a double-quote; otherwise it is the rest of the line
\* without leading and trailing whitespace (quote characters included
\* under SIR_OPTION_DISABLE_QUOTES).
C9_ValueExtraction ==
    (Loaded /\ SubSeq(text, 1, 2) = <<"k", "=">>
       /\ (IsQuoted => HasSecondQuote))
    => /\ key_count >= 1
       /\ key_names[1].t = "buf" /\ CStr(data, key_names[1]) = <<"k">>
       /\ key_values[1].t \in {"buf", "lit"}
       /\ StoredValue = ValueOfLine

-----------------------------------------------------------------------------
(* C10: letter case                                                        *)

\* A name with every capital letter replaced by its small letter.
Folded(name) ==
    [i \in 1..Len(name) |->
       IF \E j \in 1..Len(UpperLetters) : UpperLetters[j] = name[i]
       THEN LowerLetters[CHOOSE j \in 1..Len(UpperLetters) :
                           UpperLetters[j] = name[i]]
       ELSE name[i]]

\* The arguments out of set ptrs that differ from ptr in letter case only.
CaseVariants(ptrs, ptr) ==
    { q \in ptrs : q.t = ptr.t /\ Folded(q.s) = Folded(ptr.s) }

\* The text has a key line with exactly the names of the last lookup.
WrittenExactly ==
    IF ret.sec = Null THEN Anywhere(ret.key.s) # {}
    ELSE InSection(ret.sec.s, ret.key.s) # {}

\* C10: with SIR_OPTION_DISABLE_CASE_SENSITIVITY a lookup gives the same
\* result (found or not, and the value) for every letter-case variant of
\* its section name and key name; without the option it succeeds only
\* when the text has a key line with exactly these names.
C10_LetterCase ==
    AfterStr
    => IF "DISABLE_CASE_SENSITIVITY" \in options
       THEN \A sec \in CaseVariants(args.secs, ret.sec),
               key \in CaseVariants(args.keys, ret.key) :
               /\ StrAnswer(options, "", sec, key).t = ret.t
               /\ StrAnswer(options, "", sec, key).s = ret.s
       ELSE ret.t = "str" => WrittenExactly

\* Without case sensitivity, a lookup by names that the text only has in
\* the other letter case finds the value.
C10_Witness ==
    /\ AfterStr
    /\ "DISABLE_CASE_SENSITIVITY" \in options
    /\ ret.sec # Null
    /\ ~WrittenExactly
    /\ ret.t = "str"
    /\ Cardinality(CaseVariants(args.secs, ret.sec)) > 1
    /\ Cardinality(CaseVariants(args.keys, ret.key)) > 1

-----------------------------------------------------------------------------
(* C11: the CSV split                                                      *)

\* The pieces of s between consecutive commas.
RECURSIVE SplitAtCommas(_)
SplitAtCommas(s) ==
    IF FirstOf(s, {","}) = 0 THEN <<s>>
    ELSE <<SubSeq(s, 1, FirstOf(s, {","}) - 1)>>
         \o SplitAtCommas(SubSeq(s, FirstOf(s, {","}) + 1, Len(s)))

\* The value that the last call looked up.
FoundValue == CStr(data, ConvertedText)

\* C11: sir_section_csv on a found value returns one field more than the
\* value has commas, and each field is the text between two consecutive
\* commas without its leading and trailing whitespace.
C11_CsvFields ==
    (Loaded /\ ret.op = "sir_section_csv" /\ ret.t = "list")
    => /\ ret.n = Len(SplitAtCommas(FoundValue))
       /\ ret.n >= 1
       /\ ret.l = [i \in 1..ret.n |-> Trimmed(SplitAtCommas(FoundValue)[i])]

-----------------------------------------------------------------------------
(* C12, C13: the stored keys                                               *)

SameName(opts, a, b) ==
    IF "DISABLE_CASE_SENSITIVITY" \in opts THEN Folded(a) = Folded(b)
    ELSE a = b

\* The key lines that are accepted, in file order, each with the value it
\* ends with: a line with an empty value is discarded under
\* SIR_OPTION_IGNORE_EMPTY_VALUES, a line that repeats a name accepted in
\* its section is dropped, or gives its value to the accepted one under
\* SIR_OPTION_OVERRIDE_DUPLICATE_KEYS.
RECURSIVE AcceptedOf(_, _, _)
AcceptedOf(opts, entries, acc) ==
    IF entries = <<>> THEN acc
    ELSE IF Head(entries).value = <<>> /\ "IGNORE_EMPTY_VALUES" \in opts
    THEN AcceptedOf(opts, Tail(entries), acc)
    ELSE IF \E i \in 1..Len(acc) :
              /\ SameName(opts, acc[i].sec, Head(entries).sec)
              /\ SameName(opts, acc[i].key, Head(entries).key)
    THEN AcceptedOf(opts, Tail(entries),
           IF "OVERRIDE_DUPLICATE_KEYS" \in opts
           THEN [i \in 1..Len(acc) |->
                   IF /\ SameName(opts, acc[i].sec, Head(entries).sec)
                      /\ SameName(opts, acc[i].key, Head(entries).key)
                   THEN [acc[i] EXCEPT !.value = Head(entries).value]
                   ELSE acc[i]]
           ELSE acc)
    ELSE AcceptedOf(opts, Tail(entries), Append(acc, Head(entries)))

Accepted == AcceptedOf(options, Entries, <<>>)

\* C12: after parsing key_count is the number of accepted key lines, and
\* the flat arrays of key names and key values hold exactly these keys at
\* the indices 0 .. key_count - 1 in file order.
C12_KeyCountAndArrays ==
    Loaded
    => /\ key_count = Len(Accepted)
       /\ Len(key_names) >= key_count
       /\ Len(key_values) >= key_count
       /\ \A i \in 1..key_count :
            /\ CStr(data, key_names[i]) = Accepted[i].key
            /\ CStr(data, key_values[i]) = Accepted[i].value

\* C13: with SIR_OPTION_IGNORE_EMPTY_VALUES no stored key has the empty
\* string as its value after parsing, and the lookup of a key all of whose
\* lines have an empty value returns null.
C13_NoEmptyValueStored ==
    (Loaded /\ "IGNORE_EMPTY_VALUES" \in options)
    => /\ \A i \in 1..key_count : CStr(data, key_values[i]) # <<>>
       /\ (/\ ret.op = "sir_section_str" /\ ret.sec = Null /\ ret.key # Null
           /\ Anywhere(ret.key.s) # {}
           /\ \A i \in Anywhere(ret.key.s) : Entries[i].value = <<>>)
          => ret.t = "null"

-----------------------------------------------------------------------------
(* C14: integer conversions out of range                                   *)

\* The last call converted a found value to a long / an unsigned long.
ConvertedLong ==
    /\ Loaded /\ sir__errors_enabled(options)
    /\ ret.op = "sir_section_long" /\ ConvertedText # Null

ConvertedUnsignedLong ==
    /\ Loaded /\ sir__errors_enabled(options)
    /\ ret.op = "sir_section_unsigned_long" /\ ConvertedText # Null

\* The value has no leading digits / is a number of which the magnitude
\* is more than that of the digits of limit.
NoDigits == ~ScanNumber(FoundValue).conv

Beyond(limit) ==
    /\ ScanNumber(FoundValue).conv
    /\ DigitsGreater(ScanNumber(FoundValue).digits, limit)

Negative == ScanNumber(FoundValue).neg

FailedWith(msg) == error = msg /\ ret.t = "int" /\ ret.n = 0

\* The error that the operation of the last call sets for a value that is
\* too large.
TooLargeError ==
    IF ret.op = "sir_section_long"
    THEN LongResult(options, [res |-> Null, err |-> ""], strtol(Nines)).err
    ELSE UnsignedLongResult(options, [res |-> Null, err |-> ""],
                            strtoul(Nines)).err

\* C14 as stated: for sir_section_long and sir_section_unsigned_long a
\* value out of range fails with an error that tells too large from too
\* small (the error of a value that is too small is not the error of a
\* value that is too large), a value without leading digits fails with a
\* different 'could not be converted' error, and every failure returns 0.
C14_RangeErrorsDistinguished ==
    /\ (ConvertedLong /\ Negative
          /\ Beyond(LongMinDigits(ScanNumber(FoundValue).base)))
       => error # "" /\ error # TooLargeError /\ ret.n = 0
    /\ (ConvertedUnsignedLong /\ Negative
          /\ Beyond(ULongMaxDigits(ScanNumber(FoundValue).base)))
       => error # "" /\ error # TooLargeError /\ ret.n = 0
    /\ ((ConvertedLong \/ ConvertedUnsignedLong) /\ NoDigits)
       => error # "" /\ error # TooLargeError /\ ret.n = 0

\* C14, amended: sir_section_long fails with 'more than the maximum' on a
\* value above LONG_MAX and with 'less than the minimum' on a value below
\* LONG_MIN; sir_section_unsigned_long fails with the one error 'outside
\* the range' on every value of which the magnitude is above ULONG_MAX;
\* both fail with their own 'could not be converted' error on a value
\* without leading digits; every failure returns 0.
C14_RangeErrors ==
    /\ (ConvertedLong /\ ~Negative
          /\ Beyond(LongMaxDigits(ScanNumber(FoundValue).base)))
       => FailedWith("more than the maximum long")
    /\ (ConvertedLong /\ Negative
          /\ Beyond(LongMinDigits(ScanNumber(FoundValue).base)))
       => FailedWith("less than the minimum long")
    /\ (ConvertedLong /\ NoDigits)
       => FailedWith("could not be converted to long")
    /\ (ConvertedUnsignedLong
          /\ Beyond(ULongMaxDigits(ScanNumber(FoundValue).base)))
       => FailedWith("outside the range of unsigned long")
    /\ (ConvertedUnsignedLong /\ NoDigits)
       => FailedWith("could not be converted to unsigned long")

\* A long below LONG_MIN was refused.
C14_Witness ==
    /\ ConvertedLong /\ Negative
    /\ Beyond(LongMinDigits(ScanNumber(FoundValue).base))
    /\ error = "less than the minimum long"

-----------------------------------------------------------------------------
(* C15: the bool conversion                                                *)

DecimalDigits == {"0", "1", "2", "3", "4", "5", "6", "7", "8", "9"}

\* s is a number: digits after an optional sign.
IsNumber(s) ==
    /\ s # <<>>
    /\ \A i \in 2..Len(s) : s[i] \in DecimalDigits
    /\ \/ s[1] \in DecimalDigits
       \/ s[1] \in {"-", "+"} /\ Len(s) > 1

IsZero(s) == \A i \in 1..Len(s) : s[i] \in {"0", "-", "+"}

\* C15: sir_section_bool on a found value returns 1 for a number that is
\* not zero and for 'true', 0 for the number zero and for 'false', the two
\* strings in any letter case whatever the case option is, and -1 with a
\* conversion error for every other value.
C15_BoolConversion ==
    (Loaded /\ sir__errors_enabled(options)
       /\ ret.op = "sir_section_bool" /\ ConvertedText # Null)
    => IF IsNumber(FoundValue)
       THEN ret.n = (IF IsZero(FoundValue) THEN 0 ELSE 1)
       ELSE IF Folded(FoundValue) = SIR__BOOL_TRUE_STRING THEN ret.n = 1
       ELSE IF Folded(FoundValue) = SIR__BOOL_FALSE_STRING THEN ret.n = 0
       ELSE ret.n = -1 /\ error = "could not parse as bool"

-----------------------------------------------------------------------------
(* C16: the keys of a section                                              *)

\* The positions in section_names of the section that the last call named.
NamedSections ==
    { i \in 1..section_count :
        /\ section_names[i] # Null
        /\ SameName(options, Shown(section_names[i]), ret.sec.s) }

\* The last call enumerated a section that exists.
EnumeratedExisting ==
    /\ Loaded
    /\ ret.op \in {"sir_section_key_names", "sir_section_key_values"}
    /\ ret.sec # Null
    /\ NamedSections # {}

\* The indices of the ranges in Range-then-index order.
RECURSIVE IndicesOf(_)
IndicesOf(ranges) ==
    IF ranges = <<>> THEN <<>>
    ELSE [i \in 1..(Head(ranges).end - Head(ranges).start) |->
            Head(ranges).start + i - 1]
         \o IndicesOf(Tail(ranges))

SectionIndices == IndicesOf(sections[Min(NamedSections)].ranges)

\* C16: for a section that exists sir_section_key_names and
\* sir_section_key_values return the keys of the section in
\* Range-then-index order: every index of a range is that of a key of the
\* document, the size is their number, both calls report the same size,
\* and entry i of the names and entry i of the values are the name and
\* the value of the same key.
C16_SectionKeyArrays ==
    EnumeratedExisting
    => /\ ret.t = "list"
       /\ ret.n = Len(SectionIndices)
       /\ \A i \in 1..Len(SectionIndices) :
            /\ SectionIndices[i] < key_count
            /\ ret.l[i] = CStr(data, (IF ret.op = "sir_section_key_names"
                                      THEN key_names
                                      ELSE key_values)[SectionIndices[i] + 1])
       /\ Len(sir__section_key_array(options, ret.was, ret.sec,
                                     key_names).array)
          = Len(sir__section_key_array(options, ret.was, ret.sec,
                                       key_values).array)

-----------------------------------------------------------------------------
(* C17: lookups by several threads                                         *)

\* What the call of thread t returns, and what sir_has_error says after
\* it, when no other thread calls.
Alone(t) == sir_section_str(options, "", threads[t].sec, threads[t].key)

SameAsAlone ==
    \A t \in DOMAIN threads :
      threads[t].pc = "done"
      => /\ threads[t].res = Alone(t).res
         /\ threads[t].has = sir_has_error(options, Alone(t).err)

\* A step of a lookup leaves the document as it is, error slot included.
LookupStepReadOnly ==
    (Loaded /\ threads' # threads) => UNCHANGED <<docvars, error>>

\* C17 as stated: after parsing, the lookups of several threads on one
\* document are read-only: no step of a lookup modifies the document, and
\* in every interleaving each thread gets the return value and the
\* has-error outcome that its call has when it runs alone.
C17_ConcurrentLookupsReadOnly ==
    [](Loaded => SameAsAlone) /\ [][LookupStepReadOnly]_vars

\* C17, amended: the same for a document loaded with
\* SIR_OPTION_DISABLE_ERRORS, the only documents whose error slot a lookup
\* never writes.
C17_ConcurrentLookupsWithoutErrors ==
    /\ []((Loaded /\ "DISABLE_ERRORS" \in options) => SameAsAlone)
    /\ [][("DISABLE_ERRORS" \in options) => LookupStepReadOnly]_vars

\* Two lookups that overlapped are done on a document without error
\* tracking, one with a value and one with null.
C17_Witness ==
    /\ Loaded /\ "DISABLE_ERRORS" \in options
    /\ \A t \in DOMAIN threads : threads[t].pc = "done"
    /\ \E t \in DOMAIN threads : threads[t].mid
    /\ \E t, u \in DOMAIN threads :
         threads[t].res = Null /\ threads[u].res # Null

-----------------------------------------------------------------------------
(* C18: the release of the document                                        *)

\* C18: after sir_free_ini every block that the load obtained for the
\* document is released, and none is released twice.
C18_EveryBlockReleasedOnce ==
    pc = "freed" => heap.live = {} /\ heap.refreed = {}

-----------------------------------------------------------------------------
(* C19: the comment pass                                                   *)

\* The characters that mark a comment.
CommentMarkers(opts) ==
    IF "DISABLE_HASH_COMMENTS" \in opts THEN {";"} ELSE {";", "#"}

\* Position q of the text has a marker that starts a comment.
StartsComment(opts, q) ==
    /\ text[q] \in CommentMarkers(opts)
    /\ \/ "DISABLE_COMMENT_ANYWHERE" \notin opts
       \/ q = 1
       \/ text[q - 1] = "\n"

\* Position p of the text lies in a comment span: from a marker that
\* starts a comment up to, but not including, the next newline.
InCommentSpan(opts, p) ==
    \E q \in 1..p :
      /\ StartsComment(opts, q)
      /\ \A r \in q..p : text[r] # "\n"

\* The comment pass is over and no later pass has written the buffer.
AfterCommentPass == source = "ok" /\ pc \in {"warn", "alloc"}

\* C19: the comment pass replaces by a space exactly the positions of the
\* comment spans; every other character, every newline and the length of
\* the buffer are unchanged.
C19_CommentSpansBlanked ==
    AfterCommentPass
    => /\ Len(data) = Len(text) + 1
       /\ data[Len(data)] = NUL
       /\ \A p \in 1..Len(text) :
            data[p] = IF InCommentSpan(options, p) THEN " " ELSE text[p]

\* Under SIR_OPTION_DISABLE_COMMENT_ANYWHERE a comment was blanked and a
\* marker that does not begin a line was kept.
C19_Witness ==
    /\ AfterCommentPass
    /\ "DISABLE_COMMENT_ANYWHERE" \in options
    /\ \E p \in 1..Len(text) : data[p] = " " /\ text[p] # " "
    /\ \E p \in 1..Len(text) : data[p] \in CommentMarkers(options)

-----------------------------------------------------------------------------
(* C20: duplicate keys and other sections                                  *)

\* The indices of the keys stored in the section named s, in order.
StoredIndices(s) ==
    IF \E i \in 1..section_count :
         section_names[i] # Null /\ Shown(section_names[i]) = s
    THEN IndicesOf(sections[Min({ i \in 1..section_count :
                                    /\ section_names[i] # Null
                                    /\ Shown(section_names[i]) = s })].ranges)
    ELSE <<>>

\* The indices of the keys named k stored in the section named s.
StoredAs(s, k) ==
    { j \in { StoredIndices(s)[n] : n \in 1..Len(StoredIndices(s)) } :
        j < key_count /\ Shown(key_names[j + 1]) = k }

\* C20: the duplicate check looks at the keys of the open section only: a
\* key written under a section is stored in that section (it is not
\* dropped because another section has a key of that name), and the value
\* stored for it is that of one of its own lines in that section (it is
\* not overwritten from a line of another section).
C20_DuplicatesWithinOpenSection ==
    Loaded
    => \A e \in 1..Len(Entries) :
         /\ StoredAs(Entries[e].sec, Entries[e].key) # {}
         /\ \A j \in StoredAs(Entries[e].sec, Entries[e].key) :
              \E i \in InSection(Entries[e].sec, Entries[e].key) :
                Shown(key_values[j + 1]) = Entries[i].value

-----------------------------------------------------------------------------
(* C21: no section holds a key name twice                                  *)

\* The indices below key_count that the ranges of section i cover.
HeldBy(i) ==
    { j \in { IndicesOf(sections[i].ranges)[n] :
                n \in 1..Len(IndicesOf(sections[i].ranges)) } :
        j < key_count }

\* C21: the duplicate check scans all ranges of the open section, so after
\* parsing no section holds two keys with equal names (under the case
\* option of the document) across the union of its ranges, also when the
\* section was reopened after another section.
C21_NoSectionHoldsANameTwice ==
    Loaded
    => \A i \in 1..section_count :
         section_names[i] # Null
         => \A j1, j2 \in HeldBy(i) :
              j1 # j2
              => ~SameName(options, Shown(key_names[j1 + 1]),
                           Shown(key_names[j2 + 1]))

-----------------------------------------------------------------------------
(* C22: no two sections have equal names                                   *)

\* The sections in the order in which the text opens them: the global
\* section, then one per header.
Opens == <<SIR_GLOBAL_SECTION_NAME>> \o Headers

\* The number of times the text opens the section named s while another
\* section is open (or none, at the start of the text).
Openings(s) ==
    Cardinality({ p \in 1..Len(Opens) :
                    /\ SameName(options, Opens[p], s)
                    /\ (p = 1 \/ ~SameName(options, Opens[p - 1], s)) })

\* C22: after parsing no two sections have equal names under the case
\* option of the document: the global section is at index 0 and is the
\* only one of its name, every header has its section and every section
\* its header, a header that names a section seen before (the global one
\* included) reopens it with a new range, and a header that names the open
\* section appends no range.
C22_SectionNamesUnique ==
    Loaded
    => /\ section_count >= 1
       /\ section_names[1] = Lit(SIR_GLOBAL_SECTION_NAME)
       /\ \A i \in 1..section_count : section_names[i] # Null
       /\ \A i, j \in 1..section_count :
            i # j => ~SameName(options, Shown(section_names[i]),
                               Shown(section_names[j]))
       /\ \A p \in 1..Len(Opens) : \E i \in 1..section_count :
            SameName(options, Shown(section_names[i]), Opens[p])
       /\ \A i \in 1..section_count :
            /\ \E p \in 1..Len(Opens) :
                 SameName(options, Shown(section_names[i]), Opens[p])
            /\ Len(sections[i].ranges) = Openings(Shown(section_names[i]))

\* A text in which a header spells the reserved name, a section is
\* reopened after another one, and a header repeats the open section.
C22_Witness ==
    /\ Loaded
    /\ \E p \in 2..Len(Opens) : Opens[p] = SIR_GLOBAL_SECTION_NAME
    /\ \E p \in 2..Len(Opens) : SameName(options, Opens[p], Opens[p - 1])
    /\ \E i \in 2..section_count : Len(sections[i].ranges) = 2

-----------------------------------------------------------------------------
(* C23: a last key line without an assignment character                    *)

LastLine == LinesOf(text)[Len(LinesOf(text))]

\* The last line of the text is a key line without an assignment character.
LastLineBare ==
    /\ LinesOf(text) # <<>>
    /\ Trimmed(LastLine) # <<>>
    /\ Head(Trimmed(LastLine)) # SIR__SECTION_NAME_OPEN_CHAR
    /\ FirstOf(LastLine, AssignmentChars(options)) = 0

\* C23: when the last key line of the buffer has no assignment character
\* it is stored as the last key, with the empty string as its value, and
\* counted in key_count, so that the lookup without a section and the
\* lookup in its section both return the empty string; with
\* SIR_OPTION_IGNORE_EMPTY_VALUES it is not stored.  Nothing else is
\* parsed: the keys before it are the accepted key lines of the text.
C23_LastLineWithoutAssignment ==
    (Loaded /\ LastLineBare)
    => IF "IGNORE_EMPTY_VALUES" \in options
       THEN /\ key_count = Len(Accepted)
            /\ \A i \in 1..key_count :
                 Shown(key_names[i]) # Trimmed(LastLine)
       ELSE /\ key_count = Len(Accepted) + 1
            /\ Len(key_names) >= key_count
            /\ Shown(key_names[key_count]) = Trimmed(LastLine)
            /\ Shown(key_values[key_count]) = <<>>
            /\ (/\ ret.op = "sir_section_str"
                /\ ret.key = Str(Trimmed(LastLine))
                /\ (ret.sec = Null \/ ret.sec = Str(Opens[Len(Opens)])))
               => (ret.t = "str" /\ ret.s = <<>>)

-----------------------------------------------------------------------------
(* C24: the assignment character of a key line                             *)

FirstLine == LinesOf(text)[1]

\* The first key is named as the first line is, up to its earliest
\* assignment character.
NameEndsAtEarliest ==
    /\ key_count >= 1
    /\ Shown(key_names[1]) = KeyLineName(options, FirstLine)

\* C24: the name of a key line ends at its earliest assignment character,
\* the first of '=' and ':' with colon assignment, the first '=' with
\* SIR_OPTION_DISABLE_COLON_ASSIGNMENT, and the rest of the line is its
\* value: 'a:b=c' has the name 'a' and the value 'b=c', and with the option
\* the name 'a:b' and the value 'c'.
C24_EarliestAssignmentChar ==
    (Loaded /\ FirstOf(FirstLine, AssignmentChars(options)) # 0)
    => /\ NameEndsAtEarliest
       /\ Shown(key_values[1]) = KeyLineValue(options, FirstLine)

-----------------------------------------------------------------------------
(* C25: the positions of the warnings                                      *)

\* The text with its comment spans blanked.
Stripped ==
    [p \in 1..Len(text) |->
       IF InCommentSpan(options, p) THEN " " ELSE text[p]]

\* Where character p of text t lies: outside of everything ("top"), in a
\* section header, in a key name or in a key value.  A header runs from a
\* '[' met outside of everything to the next ']', a key name from any
\* other character that is not whitespace to the next assignment
\* character, a key value from there to the next newline.
RECURSIVE Within(_, _)
Within(t, p) ==
    LET before ==
          IF p = 1 THEN "top"
          ELSE LET w == Within(t, p - 1)
                   c == t[p - 1]
               IN  IF w = "header" /\ c = SIR__SECTION_NAME_CLOSE_CHAR
                   THEN "top"
                   ELSE IF w = "name" /\ c \in AssignmentChars(options)
                   THEN "value"
                   ELSE IF w = "value" /\ c = "\n" THEN "top"
                   ELSE w
    IN  IF before # "top" THEN before
        ELSE IF t[p] \in {" ", "\n", "\t"} THEN "top"
        ELSE IF t[p] = SIR__SECTION_NAME_OPEN_CHAR THEN "header"
        ELSE "name"

\* The warning for character p of text t, "" if it deserves none.
Offence(t, p) ==
    IF Within(t, p) = "header" /\ t[p] = "\n"
    THEN "Newline found in section name"
    ELSE IF Within(t, p) = "header" /\ t[p] \in AssignmentChars(options)
    THEN "'=' found in section name"
    ELSE IF Within(t, p) = "name" /\ t[p] = SIR__SECTION_NAME_OPEN_CHAR
    THEN "'[' found in key name"
    ELSE IF Within(t, p) = "name" /\ t[p] = SIR__SECTION_NAME_CLOSE_CHAR
    THEN "']' found in key name"
    ELSE IF Within(t, p) = "value" /\ t[p] = SIR__SECTION_NAME_OPEN_CHAR
    THEN "'[' found in key value"
    ELSE IF Within(t, p) = "value" /\ t[p] = SIR__SECTION_NAME_CLOSE_CHAR
    THEN "']' found in key value"
    ELSE ""

\* The 1-based line and column of character p of text t.
LineOf(t, p) == 1 + Cardinality({ q \in 1..(p - 1) : t[q] = "\n" })

ColumnOf(t, p) ==
    p - Max({0} \cup { q \in 1..(p - 1) : t[q] = "\n" })

\* The warnings of the first n characters of text t, in text order.
RECURSIVE WarningsUpTo(_, _)
WarningsUpTo(t, n) ==
    IF n = 0 THEN <<>>
    ELSE IF Offence(t, n) = "" THEN WarningsUpTo(t, n - 1)
    ELSE Append(WarningsUpTo(t, n - 1),
                [line |-> LineOf(t, n), col |-> ColumnOf(t, n),
                 msg |-> Offence(t, n)])

\* C25: the warnings of a document are those of the offending characters
\* of the comment-stripped text, one each, in text order, each with the
\* 1-based line (1 + the newlines before it) and the 1-based column of
\* its character: a newline or an assignment character in an open header,
\* a '[' or a ']' in a key name or a key value.
C25_WarningPositions ==
    (Loaded /\ sir__warnings_enabled(options))
    => warnings = WarningsUpTo(Stripped, Len(text))

-----------------------------------------------------------------------------
(* C26: the ranges partition the keys                                      *)

\* The ranges, as pairs of a section and a position in its list, that
\* cover key index j.
Covering(j) ==
    { ir \in UNION { {i} \X (1..Len(sections[i].ranges)) :
                       i \in 1..section_count } :
        /\ sections[ir[1]].ranges[ir[2]].start <= j
        /\ j < sections[ir[1]].ranges[ir[2]].end }

\* C26: after parsing the ranges of all sections partition the key
\* indices 0 .. key_count - 1: every range has 0 <= start <= end <=
\* key_count, the ranges of a section are ordered and do not overlap, and
\* every key index lies in exactly one range of exactly one section.
C26_RangesPartitionKeys ==
    Loaded
    => /\ \A i \in 1..section_count :
            /\ \A r \in 1..Len(sections[i].ranges) :
                 /\ 0 <= sections[i].ranges[r].start
                 /\ sections[i].ranges[r].start <= sections[i].ranges[r].end
                 /\ sections[i].ranges[r].end <= key_count
            /\ \A r \in 1..(Len(sections[i].ranges) - 1) :
                 sections[i].ranges[r].end <= sections[i].ranges[r + 1].start
       /\ \A j \in 0..(key_count - 1) : Cardinality(Covering(j)) = 1

-----------------------------------------------------------------------------
(* C27: the counts of the first pass bound the writes of the parser        *)

\* C27: the counts of the comment pass are upper bounds for the parser:
\* while it runs and when it is done, the sections written (indices 0 ..
\* section_index) lie below the pre-sized section count and the keys
\* written (indices 0 .. key_index - 1) below the pre-sized key count.
C27_WritesWithinPresizedArrays ==
    pc \in {"parse", "finish"}
    => /\ section_index < Len(section_names)
       /\ section_index < Len(sections)
       /\ key_index <= key_cap
       /\ Len(key_names) = key_cap
       /\ Len(key_values) = key_cap

-----------------------------------------------------------------------------
(* C28: the passes stay inside the buffer                                  *)

\* C28: in the three passes of sir_load_from_str the scan position never
\* moves beyond the terminator of the buffer and nothing outside of the
\* buffer is read or written.
C28_ScanStaysInBuffer ==
    source = "ok"
    => /\ str <= Len(data)
       /\ "strip reads past the terminator" \notin ub
       /\ "warn reads past the terminator" \notin ub
       /\ "trim reads before the buffer" \notin ub

-----------------------------------------------------------------------------
(* C29: a value is tokenized once                                          *)

\* The values that the parser has stored in the buffer so far.
Captured ==
    { i \in 1..Len(key_values) : i <= key_index /\ key_values[i].t = "buf" }

\* The scan position is past the text of every captured value.
ScanPastValues ==
    pc = "parse"
    => \A i \in Captured :
         str >= key_values[i].i + Len(CStr(data, key_values[i]))

\* No step alters the text of a value that stays captured.
ValuesKept ==
    \A i \in Captured :
      (i <= Len(key_values') /\ key_values'[i] = key_values[i])
      => CStr(data', key_values[i]) = CStr(data, key_values[i])

\* C29: the parser tokenizes every character at most once: once a value
\* is captured the scan position is past it, also for a value on a last
\* line without a newline and for a quoted value without a closing quote,
\* so that it is not parsed again as a key line, and no terminator
\* inserted later alters it.
C29_ValuesTokenizedOnce == [](ScanPastValues) /\ [][ValuesKept]_vars

-----------------------------------------------------------------------------
(* C30: the main loop terminates                                           *)

\* An iteration of the main loop that does not stop the parse moves the
\* scan position forward.
IterationAdvances == (pc = "parse" /\ pc' = "parse") => str' > str

\* C30: the main loop of the parser terminates: every iteration stops the
\* parse or moves the scan position forward, and the parse that has
\* started returns the document.
C30_MainLoopTerminates ==
    /\ [][IterationAdvances]_vars
    /\ (pc = "parse") ~> (pc = "ready" /\ ret.t = "ini")

\* A document returned after the loop has stored a key and has met the
\* terminator behind the newline of the last line.
C30_Witness ==
    /\ Loaded
    /\ ret.op = "load"
    /\ key_index >= 1
    /\ str = Len(data)
    /\ text[Len(text)] = "\n"

====
